---------------------------- MODULE Spec2Model ----------------------------
(***************************************************************************)
(* Model of the streaming telephony audio buffer of preopcaller:           *)
(*   scripts/whisperSTT.mjs            MULAW_TO_PCM, mulawToLinear,        *)
(*                                     transcribeAudio,                    *)
(*                                     calculateAudioEnergy, AudioBuffer   *)
(*   scripts/serverWithMediaStreams.mjs  the per-call registry, the        *)
(*                                     periodic check and the teardown     *)
(*                                                                         *)
(* Audio is kept run-length encoded: a run <<b, n>> stands for n frames    *)
(* of FrameBytes bytes, every byte equal to b.  Times are milliseconds of  *)
(* Date.now().                                                             *)
(***************************************************************************)
EXTENDS Integers, Sequences, FiniteSets, TLC

(***************************************************************************)
(* Bit operations of JavaScript on non-negative integers.                  *)
(***************************************************************************)
RECURSIVE BitAnd(_, _)
BitAnd(x, y) ==
    IF x = 0 \/ y = 0 THEN 0
    ELSE ((x % 2) * (y % 2)) + 2 * BitAnd(x \div 2, y \div 2)

RECURSIVE BitOr(_, _)
BitOr(x, y) ==
    IF x = 0 THEN y
    ELSE IF y = 0 THEN x
    ELSE (IF (x % 2) + (y % 2) > 0 THEN 1 ELSE 0) + 2 * BitOr(x \div 2, y \div 2)

RECURSIVE Pow2(_)
Pow2(n) == IF n = 0 THEN 1 ELSE 2 * Pow2(n - 1)

Shl(x, n) == x * Pow2(n)

Shr(x, n) == x \div Pow2(n)

\* ~x & 0xFF
Not8(x) == BitAnd(255 - (x % 256), 255)

Bytes == 0 .. 255

Max(a, b) == IF a >= b THEN a ELSE b

Min(a, b) == IF a <= b THEN a ELSE b

(***************************************************************************)
(* whisperSTT.mjs:27-59  the decode table and mulawToLinear                *)
(***************************************************************************)
\* lines 38-46 with the shift of line 40 one bit too far
DecodeFormulaWide(mulawByte) ==
    LET sign      == Shr(BitAnd(mulawByte, 128), 7)
        exponent  == Shr(BitAnd(mulawByte, 112), 4)
        mantissa  == BitAnd(mulawByte, 15)
        l3        == Shl(BitOr(Shl(mantissa, 4), 132), exponent + 1)
        l4        == l3 - 132
    IN  IF sign # 0 THEN 0 - l4 ELSE l4

\* lines 33-46: the value computed from the fields of mulawByte, before
\* the clamp
DecodeFormula(mulawByte) ==
    LET sign      == Shr(BitAnd(mulawByte, 128), 7)
        exponent  == Shr(BitAnd(mulawByte, 112), 4)
        mantissa  == BitAnd(mulawByte, 15)
        l1        == Shl(mantissa, 4)
        l2        == BitOr(l1, 132)
        l3        == Shl(l2, exponent)
        l4        == l3 - 132
    IN  IF sign # 0 THEN 0 - l4 ELSE l4

\* line 49: Math.max(-32768, Math.min(32767, linear))
Clamp16(linear) == Max(-32768, Min(32767, linear))

\* the loop body of lines 28-50 for table index i
MULAW_TO_PCM(i) ==
    LET mulawByte == Not8(i)
    IN  Clamp16(DecodeFormula(mulawByte))

mulawToLinear(mulawByte) ==
    LET inverted == Not8(mulawByte)
    IN  MULAW_TO_PCM(inverted)

(***************************************************************************)
(* whisperSTT.mjs:65-96  convertMulawToWAV, over a buffer given byte by    *)
(* byte; the result is the sequence of bytes of the WAV file.              *)
(***************************************************************************)
\* Buffer.writeUInt16LE
UInt16LE(v) == <<v % 256, (v \div 256) % 256>>

\* Buffer.writeUInt32LE
UInt32LE(v) == UInt16LE(v % 65536) \o UInt16LE(v \div 65536)

\* Buffer.writeInt16LE: two's complement of a value in -32768 .. 32767
Int16LE(v) == UInt16LE(IF v < 0 THEN v + 65536 ELSE v)

\* Buffer.write of a four-character tag, as character codes
Tag(name) ==
    CASE name = "RIFF" -> <<82, 73, 70, 70>>
      [] name = "WAVE" -> <<87, 65, 86, 69>>
      [] name = "fmt " -> <<102, 109, 116, 32>>
      [] name = "data" -> <<100, 97, 116, 97>>

\* lines 73-77: pcmBuffer, two bytes per input byte, in input order
RECURSIVE PcmBuffer(_)
PcmBuffer(mulawBuffer) ==
    IF mulawBuffer = << >> THEN << >>
    ELSE Int16LE(mulawToLinear(Head(mulawBuffer))) \o PcmBuffer(Tail(mulawBuffer))

\* lines 80-93: the 44 bytes of the header, for pcmLength bytes of samples
WavHeader(pcmLength) ==
    LET sampleRate == 8000
    IN  Tag("RIFF") \o UInt32LE(36 + pcmLength) \o Tag("WAVE")
          \o Tag("fmt ") \o UInt32LE(16) \o UInt16LE(1) \o UInt16LE(1)
          \o UInt32LE(sampleRate) \o UInt32LE(sampleRate * 2) \o UInt16LE(2)
          \o UInt16LE(16)
          \o Tag("data") \o UInt32LE(pcmLength)

\* the header with the file length where the RIFF chunk size belongs
convertMulawToWAVFileSize(mulawBuffer) ==
    LET pcmBuffer == PcmBuffer(mulawBuffer)
        header    == WavHeader(Len(pcmBuffer))
    IN  SubSeq(header, 1, 4) \o UInt32LE(44 + Len(pcmBuffer))
          \o SubSeq(header, 9, 44) \o pcmBuffer

\* lines 65-96
convertMulawToWAV(mulawBuffer) ==
    LET pcmBuffer == PcmBuffer(mulawBuffer)
    IN  WavHeader(Len(pcmBuffer)) \o pcmBuffer

(***************************************************************************)
(* testNgrok.mjs:222-249  the conversion of the mu-law test script         *)
(***************************************************************************)
\* lines 224-237: the table entry of index i, fields taken from i itself
MULAW_LOOKUP(i) ==
    LET sign      == Shr(BitAnd(i, 128), 7)
        exponent  == Shr(BitAnd(i, 112), 4)
        mantissa  == BitAnd(i, 15)
        l4        == Shl(BitOr(Shl(mantissa, 4), 132), exponent) - 132
        linear    == IF sign # 0 THEN 0 - l4 ELSE l4
    IN  Max(-32768, Min(32767, linear))

\* lines 245-246: one sample of mulawToWAV
mulawToWAVSample(b) == MULAW_LOOKUP(Not8(b))

(***************************************************************************)
(* ITU-T G.711 mu-law expansion (the reference the decode is held to):     *)
(* complement, t = ((mantissa << 3) + 0x84) << exponent, sample is         *)
(* t - 0x84, negated when the sign bit of the complemented byte is set.    *)
(***************************************************************************)
G711Reference(b) ==
    LET u        == Not8(b)
        exponent == Shr(BitAnd(u, 112), 4)
        mantissa == BitAnd(u, 15)
        t        == Shl(Shl(mantissa, 3) + 132, exponent)
    IN  IF BitAnd(u, 128) # 0 THEN 132 - t ELSE t - 132

(***************************************************************************)
(* Exact arithmetic for calculateAudioEnergy.  JavaScript sums the squares *)
(* in a double, exact up to 2^53; here a sum is a pair <<hi, lo>> standing *)
(* for hi * LIMB + lo with 0 <= lo < LIMB.                                 *)
(***************************************************************************)
LIMB == Pow2(15)

BigNorm(hi, lo) == <<hi + (lo \div LIMB), lo % LIMB>>

\* m * d for 0 <= m < LIMB and 0 <= d < LIMB * LIMB
BigScale(m, d) == BigNorm(m * (d \div LIMB), m * (d % LIMB))

BigAdd(a, b) == BigNorm(a[1] + b[1], a[2] + b[2])

BigLess(a, b) == a[1] < b[1] \/ (a[1] = b[1] /\ a[2] < b[2])

(***************************************************************************)
(* Audio bytes, run-length encoded.  A byte buffer is a sequence of runs   *)
(* <<b, n>> (n > 0 frames of byte b, adjacent runs of different bytes), so *)
(* two buffers are equal exactly when their bytes are.                     *)
(***************************************************************************)
SampleRate == 8000

\* the bytes of one 20 ms frame at 8 kHz
FrameBytes == SampleRate \div 50

RECURSIVE Frames(_)
Frames(runs) == IF runs = << >> THEN 0 ELSE Head(runs)[2] + Frames(Tail(runs))

\* Buffer.length
ByteLength(runs) == FrameBytes * Frames(runs)

\* Buffer.concat of two byte buffers
Concat2(r, s) ==
    IF r = << >> THEN s
    ELSE IF s = << >> THEN r
    ELSE IF r[Len(r)][1] = s[1][1]
         THEN SubSeq(r, 1, Len(r) - 1)
                \o << <<s[1][1], r[Len(r)][2] + s[1][2]>> >>
                \o Tail(s)
         ELSE r \o s

\* the chunks joined last chunk first
RECURSIVE BufferConcatReversed(_)
BufferConcatReversed(list) ==
    IF list = << >> THEN << >>
    ELSE Concat2(BufferConcatReversed(Tail(list)), Head(list))

\* Buffer.concat(list): the buffers of the list one after the other (the
\* list is halved at each step to keep the evaluation shallow)
RECURSIVE BufferConcat(_)
BufferConcat(list) ==
    IF list = << >> THEN << >>
    ELSE IF Len(list) = 1 THEN list[1]
    ELSE LET half == Len(list) \div 2
         IN  Concat2(BufferConcat(SubSeq(list, 1, half)),
                     BufferConcat(SubSeq(list, half + 1, Len(list))))

(***************************************************************************)
(* Base64 text.  A payload is the text of one media message: its form      *)
(* ("std" as Buffer.toString('base64') writes it, "loose" for text that    *)
(* Buffer.from accepts but toString never writes, "empty" for '') and the  *)
(* bytes it decodes to.                                                    *)
(***************************************************************************)
\* Buffer.from(text, 'base64')
Base64Decode(p) == p.runs

\* buffer.toString('base64')
Base64Encode(runs) == [form |-> IF runs = << >> THEN "empty" ELSE "std", runs |-> runs]

\* JavaScript truthiness of a string
TruthyText(p) == p.form # "empty"

(***************************************************************************)
(* whisperSTT.mjs:172-186  calculateAudioEnergy                            *)
(***************************************************************************)
\* lines 175-182: the linear value the energy path gives one byte
EnergyLinear(mulawByte) ==
    LET sign     == BitAnd(mulawByte, 128)
        exponent == Shr(BitAnd(mulawByte, 112), 4)
        mantissa == BitAnd(mulawByte, 15)
        l1       == Shl(mantissa, exponent + 3)
        l2       == BitOr(l1, Shl(132, exponent))
    IN  IF sign # 0 THEN l2 ELSE 0 - l2

\* line 183 summed over the buffer, per frame of FrameBytes equal bytes
RECURSIVE SumSquares(_)
SumSquares(runs) ==
    IF runs = << >> THEN <<0, 0>>
    ELSE BigAdd(BigScale(Head(runs)[2], EnergyLinear(Head(runs)[1]) * EnergyLinear(Head(runs)[1])),
                SumSquares(Tail(runs)))

\* the value Math.sqrt(sumSquares / length) as its radicand: the sum of
\* squares and the length, both in units of FrameBytes; length 0 is NaN
calculateAudioEnergy(mulawBuffer) ==
    [sumSquares |-> SumSquares(mulawBuffer), length |-> Frames(mulawBuffer)]

\* energy > threshold  (false for NaN)
EnergyGreater(e, threshold) ==
    /\ e.length > 0
    /\ BigLess(BigScale(e.length, threshold * threshold), e.sumSquares)

\* energy < threshold  (false for NaN)
EnergyLess(e, threshold) ==
    /\ e.length > 0
    /\ BigLess(e.sumSquares, BigScale(e.length, threshold * threshold))

(***************************************************************************)
(* whisperSTT.mjs:103-167  transcribeAudio                                 *)
(*                                                                         *)
(* client: openai is not null (line 21).  fsOk: the debug files could be   *)
(* written (lines 113-127).  backend: Awaiting while the Whisper request   *)
(* is in flight, else its outcome.                                         *)
(***************************************************************************)
NoText == "<none>"

NoError == "<no error>"

Awaiting == [ok |-> FALSE, text |-> NoText, cause |-> "<awaiting>"]

Texts == {" hi ", "  "}

Causes == {"ECONNRESET"}

BackendOutcomes ==
    {[ok |-> TRUE, text |-> t, cause |-> NoError] : t \in Texts}
      \cup {[ok |-> FALSE, text |-> NoText, cause |-> c] : c \in Causes}

\* String.prototype.trim
Trim(t) == IF t = " hi " THEN "hi" ELSE IF t = "  " THEN "" ELSE t

\* the catch of line 163 returns an empty text instead of rethrowing
transcribeAudioSwallows(client, fsOk, backend) ==
    IF ~client
    THEN [settled |-> "rejected", error |-> "OPENAI_API_KEY not found in .env.local",
          text |-> NoText, backendCalled |-> FALSE]
    ELSE IF ~fsOk
    THEN [settled |-> "resolved", error |-> NoError,
          text |-> "", backendCalled |-> FALSE]
    ELSE IF backend = Awaiting
    THEN [settled |-> "pending", error |-> NoError,
          text |-> NoText, backendCalled |-> TRUE]
    ELSE IF backend.ok
    THEN [settled |-> "resolved", error |-> NoError,
          text |-> backend.text, backendCalled |-> TRUE]
    ELSE [settled |-> "resolved", error |-> NoError,
          text |-> "", backendCalled |-> TRUE]

transcribeAudio(client, fsOk, backend) ==
    IF ~client
    THEN [settled |-> "rejected", error |-> "OPENAI_API_KEY not found in .env.local",
          text |-> NoText, backendCalled |-> FALSE]
    ELSE IF ~fsOk
    THEN [settled |-> "rejected", error |-> "EACCES",
          text |-> NoText, backendCalled |-> FALSE]
    ELSE IF backend = Awaiting
    THEN [settled |-> "pending", error |-> NoError,
          text |-> NoText, backendCalled |-> TRUE]
    ELSE IF backend.ok
    THEN [settled |-> "resolved", error |-> NoError,
          text |-> backend.text, backendCalled |-> TRUE]
    ELSE [settled |-> "rejected", error |-> backend.cause,
          text |-> NoText, backendCalled |-> TRUE]

NoStt == [settled |-> "none", error |-> NoError, text |-> NoText, backendCalled |-> FALSE]

(***************************************************************************)
(* whisperSTT.mjs:192-306  class AudioBuffer                               *)
(***************************************************************************)
Null == 0 - 1

Undefined == 0 - 2

\* JavaScript truthiness of a number or null
Truthy(x) == x # Null /\ x # Undefined /\ x # 0

\* a || b
OrElse(a, b) == IF Truthy(a) THEN a ELSE b

\* serverWithMediaStreams.mjs:181-186
ServerOptions ==
    [minBufferDurationMs |-> 5000, maxBufferDurationMs |-> 15000,
     pauseDurationMs |-> 1500, energyThreshold |-> 1000]

\* lines 193-204
AudioBufferNew(options, t) ==
    [buffer                |-> << >>,
     minBufferDurationMs   |-> OrElse(options.minBufferDurationMs, 5000),
     maxBufferDurationMs   |-> OrElse(options.maxBufferDurationMs, 15000),
     pauseDurationMs       |-> OrElse(options.pauseDurationMs, 1500),
     energyThreshold       |-> OrElse(options.energyThreshold, 1000),
     lastTranscriptionTime |-> t,
     lastAudioTime         |-> Null,
     silenceStartTime      |-> Null]

\* the else branch of line 217 without its push
addChunkDropsSilence(self, audioBase64, t) ==
    LET audioBuffer == Base64Decode(audioBase64)
        energy      == calculateAudioEnergy(audioBuffer)
        hasSpeech   == EnergyGreater(energy, self.energyThreshold)
    IN  IF hasSpeech
        THEN [self EXCEPT !.lastAudioTime = t,
                          !.silenceStartTime = Null,
                          !.buffer = Append(@, audioBase64)]
        ELSE IF Truthy(self.lastAudioTime) /\ ~Truthy(self.silenceStartTime)
        THEN [self EXCEPT !.silenceStartTime = t]
        ELSE self

\* line 211 with >= where the code has >
addChunkAtLeast(self, audioBase64, t) ==
    LET audioBuffer == Base64Decode(audioBase64)
        energy      == calculateAudioEnergy(audioBuffer)
        hasSpeech   == ~EnergyLess(energy, self.energyThreshold)
    IN  IF hasSpeech
        THEN [self EXCEPT !.lastAudioTime = t,
                          !.silenceStartTime = Null,
                          !.buffer = Append(@, audioBase64)]
        ELSE IF Truthy(self.lastAudioTime) /\ ~Truthy(self.silenceStartTime)
        THEN [self EXCEPT !.silenceStartTime = t,
                          !.buffer = Append(@, audioBase64)]
        ELSE [self EXCEPT !.buffer = Append(@, audioBase64)]

\* line 219 without its test of silenceStartTime
addChunkRestartsSilence(self, audioBase64, t) ==
    LET audioBuffer == Base64Decode(audioBase64)
        energy      == calculateAudioEnergy(audioBuffer)
        hasSpeech   == EnergyGreater(energy, self.energyThreshold)
    IN  IF hasSpeech
        THEN [self EXCEPT !.lastAudioTime = t,
                          !.silenceStartTime = Null,
                          !.buffer = Append(@, audioBase64)]
        ELSE IF Truthy(self.lastAudioTime)
        THEN [self EXCEPT !.silenceStartTime = t,
                          !.buffer = Append(@, audioBase64)]
        ELSE [self EXCEPT !.buffer = Append(@, audioBase64)]

\* lines 206-225; t is Date.now()
\* line 219 without its test of lastAudioTime
addChunkSilenceUnconditional(self, audioBase64, t) ==
    LET audioBuffer == Base64Decode(audioBase64)
        energy      == calculateAudioEnergy(audioBuffer)
        hasSpeech   == EnergyGreater(energy, self.energyThreshold)
    IN  IF hasSpeech
        THEN [self EXCEPT !.lastAudioTime = t,
                          !.silenceStartTime = Null,
                          !.buffer = Append(@, audioBase64)]
        ELSE IF ~Truthy(self.silenceStartTime)
        THEN [self EXCEPT !.silenceStartTime = t,
                          !.buffer = Append(@, audioBase64)]
        ELSE [self EXCEPT !.buffer = Append(@, audioBase64)]

addChunk(self, audioBase64, t) ==
    LET audioBuffer == Base64Decode(audioBase64)
        energy      == calculateAudioEnergy(audioBuffer)
        hasSpeech   == EnergyGreater(energy, self.energyThreshold)
    IN  IF hasSpeech
        THEN [self EXCEPT !.lastAudioTime = t,
                          !.silenceStartTime = Null,
                          !.buffer = Append(@, audioBase64)]
        ELSE IF Truthy(self.lastAudioTime) /\ ~Truthy(self.silenceStartTime)
        THEN [self EXCEPT !.silenceStartTime = t,
                          !.buffer = Append(@, audioBase64)]
        ELSE [self EXCEPT !.buffer = Append(@, audioBase64)]

NoSegment == [form |-> "<none>", runs |-> << >>]

\* this.buffer.map(chunk => Buffer.from(chunk, 'base64'))
DecodeAll(chunks) == [i \in 1 .. Len(chunks) |-> Base64Decode(chunks[i])]

\* flush without the catch of lines 267-271: the rejection reaches the caller
flushResumePropagates(self, stt, t) ==
    IF stt.settled = "resolved"
    THEN [self       |-> [self EXCEPT !.lastTranscriptionTime = t,
                                      !.lastAudioTime = Null,
                                      !.silenceStartTime = Null],
          returned   |-> "true",
          transcript |-> IF Trim(stt.text) # "" THEN Trim(stt.text) ELSE NoText,
          isFinal    |-> TRUE]
    ELSE [self       |-> self,
          returned   |-> "rejected",
          transcript |-> NoText,
          isFinal    |-> TRUE]

\* lines 257-271: flush from the point where transcribeAudio has settled;
\* stt is the settled call, t is Date.now()
\* line 259 without its transcript.trim() test
flushResumeUntrimmed(self, stt, t) ==
    IF stt.settled = "resolved"
    THEN [self       |-> [self EXCEPT !.lastTranscriptionTime = t,
                                      !.lastAudioTime = Null,
                                      !.silenceStartTime = Null],
          returned   |-> "true",
          transcript |-> Trim(stt.text),
          isFinal    |-> TRUE]
    ELSE [self       |-> [self EXCEPT !.buffer = << >>],
          returned   |-> "false",
          transcript |-> NoText,
          isFinal    |-> TRUE]

flushResume(self, stt, t) ==
    IF stt.settled = "resolved"
    THEN [self       |-> [self EXCEPT !.lastTranscriptionTime = t,
                                      !.lastAudioTime = Null,
                                      !.silenceStartTime = Null],
          returned   |-> "true",
          transcript |-> IF Trim(stt.text) # "" THEN Trim(stt.text) ELSE NoText,
          isFinal    |-> TRUE]
    ELSE [self       |-> [self EXCEPT !.buffer = << >>],
          returned   |-> "false",
          transcript |-> NoText,
          isFinal    |-> TRUE]

\* the shape of what one run of flush (up to its first suspension) did
FlushReport(self, outcome, returned, segment, stt, transcript) ==
    [self |-> self, outcome |-> outcome, returned |-> returned,
     segment |-> segment, stt |-> stt, transcript |-> transcript]

\* a discard that forgets to empty the buffer
DiscardKeeps(self) == self

\* lines 240-241 and 249-250: this.buffer = [] before return false
Discard(self) == [self EXCEPT !.buffer = << >>]

\* a flush that takes the empty buffer for a finished segment
flushBeginResetsOnEmpty(self, client, fsOk, t) ==
    IF Len(self.buffer) = 0
    THEN FlushReport([self EXCEPT !.lastTranscriptionTime = t,
                                  !.lastAudioTime = Null,
                                  !.silenceStartTime = Null],
                     "empty", "true", NoSegment, NoStt, NoText)
    ELSE
      LET combinedBuffer == BufferConcat(DecodeAll(self.buffer))
          totalEnergy    == calculateAudioEnergy(combinedBuffer)
          cleared        == [self EXCEPT !.buffer = << >>]
      IN  IF ByteLength(combinedBuffer) * 10 < SampleRate
          THEN FlushReport(Discard(self), "short", "false", NoSegment, NoStt, NoText)
          ELSE IF EnergyLess(totalEnergy, self.energyThreshold)
          THEN FlushReport(Discard(self), "quiet", "false", NoSegment, NoStt, NoText)
          ELSE
            LET stt == transcribeAudio(client, fsOk, Awaiting)
            IN  IF stt.settled = "pending"
                THEN FlushReport(cleared, "submitted", "awaiting",
                                 Base64Encode(combinedBuffer), stt, NoText)
                ELSE LET r == flushResume(cleared, stt, t)
                     IN  FlushReport(r.self, "submitted", r.returned,
                                     Base64Encode(combinedBuffer), stt, r.transcript)

\* the test of line 238 with <= where the code has <
flushBeginAtMost(self, client, fsOk, t) ==
    IF Len(self.buffer) = 0
    THEN FlushReport(self, "empty", "false", NoSegment, NoStt, NoText)
    ELSE
      LET combinedBuffer == BufferConcat(DecodeAll(self.buffer))
          totalEnergy    == calculateAudioEnergy(combinedBuffer)
          cleared        == [self EXCEPT !.buffer = << >>]
      IN  IF ByteLength(combinedBuffer) * 10 <= SampleRate
          THEN FlushReport(Discard(self), "short", "false", NoSegment, NoStt, NoText)
          ELSE IF EnergyLess(totalEnergy, self.energyThreshold)
          THEN FlushReport(Discard(self), "quiet", "false", NoSegment, NoStt, NoText)
          ELSE
            LET stt == transcribeAudio(client, fsOk, Awaiting)
            IN  IF stt.settled = "pending"
                THEN FlushReport(cleared, "submitted", "awaiting",
                                 Base64Encode(combinedBuffer), stt, NoText)
                ELSE LET r == flushResume(cleared, stt, t)
                     IN  FlushReport(r.self, "submitted", r.returned,
                                     Base64Encode(combinedBuffer), stt, r.transcript)

\* lines 227-257: flush up to the await of transcribeAudio, and through
\* lines 267-271 when transcribeAudio rejects without suspension
\* flush without line 255: the buffer is still full while the request runs
flushBeginKeepsBuffer(self, client, fsOk, t) ==
    IF Len(self.buffer) = 0
    THEN FlushReport(self, "empty", "false", NoSegment, NoStt, NoText)
    ELSE
      LET combinedBuffer == BufferConcat(DecodeAll(self.buffer))
          totalEnergy    == calculateAudioEnergy(combinedBuffer)
      IN  IF ByteLength(combinedBuffer) * 10 < SampleRate
          THEN FlushReport(Discard(self), "short", "false", NoSegment, NoStt, NoText)
          ELSE IF EnergyLess(totalEnergy, self.energyThreshold)
          THEN FlushReport(Discard(self), "quiet", "false", NoSegment, NoStt, NoText)
          ELSE
            LET combinedBase64 == Base64Encode(combinedBuffer)
                stt            == transcribeAudio(client, fsOk, Awaiting)
            IN  IF stt.settled = "pending"
                THEN FlushReport(self, "submitted", "awaiting", combinedBase64, stt, NoText)
                ELSE LET r == flushResume(self, stt, t)
                     IN  FlushReport(r.self, "submitted", r.returned, combinedBase64,
                                     stt, r.transcript)

flushBegin(self, client, fsOk, t) ==
    IF Len(self.buffer) = 0
    THEN FlushReport(self, "empty", "false", NoSegment, NoStt, NoText)
    ELSE
      LET audioBuffers   == DecodeAll(self.buffer)
          combinedBuffer == BufferConcat(audioBuffers)
          totalEnergy    == calculateAudioEnergy(combinedBuffer)
          cleared        == [self EXCEPT !.buffer = << >>]
      IN  \* audioDurationSeconds < 0.1
          IF ByteLength(combinedBuffer) * 10 < SampleRate
          THEN FlushReport(Discard(self), "short", "false", NoSegment, NoStt, NoText)
          ELSE IF EnergyLess(totalEnergy, self.energyThreshold)
          THEN FlushReport(Discard(self), "quiet", "false", NoSegment, NoStt, NoText)
          ELSE
            LET combinedBase64 == Base64Encode(combinedBuffer)
                stt            == transcribeAudio(client, fsOk, Awaiting)
            IN  IF stt.settled = "pending"
                THEN FlushReport(cleared, "submitted", "awaiting", combinedBase64, stt, NoText)
                ELSE LET r == flushResume(cleared, stt, t)
                     IN  FlushReport(r.self, "submitted", r.returned, combinedBase64,
                                     stt, r.transcript)

\* total decoded bytes of the buffered chunks (lines 279-280)
RECURSIVE BufferedBytes(_)
BufferedBytes(chunks) ==
    IF chunks = << >> THEN 0
    ELSE IF Len(chunks) = 1 THEN ByteLength(Base64Decode(chunks[1]))
    ELSE LET half == Len(chunks) \div 2
         IN  BufferedBytes(SubSeq(chunks, 1, half))
               + BufferedBytes(SubSeq(chunks, half + 1, Len(chunks)))

\* > where the code has >=
DurationAbove(bytes, ms) == bytes * 1000 > ms * SampleRate

\* audioDurationSeconds >= ms / 1000, with audioDurationSeconds = bytes / 8000
DurationAtLeast(bytes, ms) == bytes * 1000 >= ms * SampleRate

\* lines 274-305 without strategy 3 (lines 297-304)
checkAndTranscribeNoTrailing(self, client, fsOk, t) ==
    IF Len(self.buffer) = 0
    THEN [flushStarted |-> FALSE, flushCalls |-> 0, strategy |-> 0,
          flush |-> FlushReport(self, "none", "none", NoSegment, NoStt, NoText)]
    ELSE
      LET bytes == BufferedBytes(self.buffer)
      IN  IF /\ DurationAtLeast(bytes, self.minBufferDurationMs)
             /\ Truthy(self.silenceStartTime)
             /\ (t - self.silenceStartTime) >= self.pauseDurationMs
          THEN [flushStarted |-> TRUE, flushCalls |-> 1, strategy |-> 1,
                flush |-> flushBegin(self, client, fsOk, t)]
          ELSE IF DurationAtLeast(bytes, self.maxBufferDurationMs)
          THEN [flushStarted |-> TRUE, flushCalls |-> 1, strategy |-> 2,
                flush |-> flushBegin(self, client, fsOk, t)]
          ELSE [flushStarted |-> FALSE, flushCalls |-> 0, strategy |-> 0,
                flush |-> FlushReport(self, "none", "none", NoSegment, NoStt, NoText)]

\* lines 274-305 without strategy 2 (lines 290-295)
checkAndTranscribeNoCap(self, client, fsOk, t) ==
    IF Len(self.buffer) = 0
    THEN [flushStarted |-> FALSE, flushCalls |-> 0, strategy |-> 0,
          flush |-> FlushReport(self, "none", "none", NoSegment, NoStt, NoText)]
    ELSE
      LET bytes == BufferedBytes(self.buffer)
      IN  IF /\ DurationAtLeast(bytes, self.minBufferDurationMs)
             /\ Truthy(self.silenceStartTime)
             /\ (t - self.silenceStartTime) >= self.pauseDurationMs
          THEN [flushStarted |-> TRUE, flushCalls |-> 1, strategy |-> 1,
                flush |-> flushBegin(self, client, fsOk, t)]
          ELSE IF /\ DurationAtLeast(bytes, self.minBufferDurationMs)
                  /\ Truthy(self.lastAudioTime)
                  /\ (t - self.lastAudioTime) >= self.pauseDurationMs
          THEN [flushStarted |-> TRUE, flushCalls |-> 1, strategy |-> 3,
                flush |-> flushBegin(self, client, fsOk, t)]
          ELSE [flushStarted |-> FALSE, flushCalls |-> 0, strategy |-> 0,
                flush |-> FlushReport(self, "none", "none", NoSegment, NoStt, NoText)]

\* lines 274-305 with strategy 3 not testing minBufferDurationMs
checkAndTranscribeNoMin(self, client, fsOk, t) ==
    IF Len(self.buffer) = 0
    THEN [flushStarted |-> FALSE, flushCalls |-> 0, strategy |-> 0,
          flush |-> FlushReport(self, "none", "none", NoSegment, NoStt, NoText)]
    ELSE
      LET bytes == BufferedBytes(self.buffer)
      IN  IF /\ DurationAtLeast(bytes, self.minBufferDurationMs)
             /\ Truthy(self.silenceStartTime)
             /\ (t - self.silenceStartTime) >= self.pauseDurationMs
          THEN [flushStarted |-> TRUE, flushCalls |-> 1, strategy |-> 1,
                flush |-> flushBegin(self, client, fsOk, t)]
          ELSE IF DurationAtLeast(bytes, self.maxBufferDurationMs)
          THEN [flushStarted |-> TRUE, flushCalls |-> 1, strategy |-> 2,
                flush |-> flushBegin(self, client, fsOk, t)]
          ELSE IF /\ Truthy(self.lastAudioTime)
                  /\ (t - self.lastAudioTime) >= self.pauseDurationMs
          THEN [flushStarted |-> TRUE, flushCalls |-> 1, strategy |-> 3,
                flush |-> flushBegin(self, client, fsOk, t)]
          ELSE [flushStarted |-> FALSE, flushCalls |-> 0, strategy |-> 0,
                flush |-> FlushReport(self, "none", "none", NoSegment, NoStt, NoText)]

\* lines 274-305; t is Date.now()
\* a poll that records its own time when it flushes nothing
checkAndTranscribeStamps(self, client, fsOk, t) ==
    LET bytes == BufferedBytes(self.buffer)
        idle  == [self EXCEPT !.lastTranscriptionTime = t]
    IN  IF Len(self.buffer) = 0
        THEN [flushStarted |-> FALSE, flushCalls |-> 0, strategy |-> 0,
              flush |-> FlushReport(self, "none", "none", NoSegment, NoStt, NoText)]
        ELSE IF \/ /\ DurationAtLeast(bytes, self.minBufferDurationMs)
                   /\ \/ /\ Truthy(self.silenceStartTime)
                         /\ (t - self.silenceStartTime) >= self.pauseDurationMs
                      \/ /\ Truthy(self.lastAudioTime)
                         /\ (t - self.lastAudioTime) >= self.pauseDurationMs
                \/ DurationAtLeast(bytes, self.maxBufferDurationMs)
        THEN [flushStarted |-> TRUE, flushCalls |-> 1, strategy |-> 1,
              flush |-> flushBegin(self, client, fsOk, t)]
        ELSE [flushStarted |-> FALSE, flushCalls |-> 0, strategy |-> 0,
              flush |-> FlushReport(idle, "none", "none", NoSegment, NoStt, NoText)]

checkAndTranscribe(self, client, fsOk, t) ==
    IF Len(self.buffer) = 0
    THEN [flushStarted |-> FALSE, flushCalls |-> 0, strategy |-> 0,
          flush |-> FlushReport(self, "none", "none", NoSegment, NoStt, NoText)]
    ELSE
      LET bytes == BufferedBytes(self.buffer)
      IN  IF /\ DurationAtLeast(bytes, self.minBufferDurationMs)
             /\ Truthy(self.silenceStartTime)
             /\ (t - self.silenceStartTime) >= self.pauseDurationMs
          THEN [flushStarted |-> TRUE, flushCalls |-> 1, strategy |-> 1,
                flush |-> flushBegin(self, client, fsOk, t)]
          ELSE IF DurationAtLeast(bytes, self.maxBufferDurationMs)
          THEN [flushStarted |-> TRUE, flushCalls |-> 1, strategy |-> 2,
                flush |-> flushBegin(self, client, fsOk, t)]
          ELSE IF /\ DurationAtLeast(bytes, self.minBufferDurationMs)
                  /\ Truthy(self.lastAudioTime)
                  /\ (t - self.lastAudioTime) >= self.pauseDurationMs
          THEN [flushStarted |-> TRUE, flushCalls |-> 1, strategy |-> 3,
                flush |-> flushBegin(self, client, fsOk, t)]
          ELSE [flushStarted |-> FALSE, flushCalls |-> 0, strategy |-> 0,
                flush |-> FlushReport(self, "none", "none", NoSegment, NoStt, NoText)]

NoSample == Pow2(17)

(***************************************************************************)
(* Bounds and inputs of the model                                          *)
(***************************************************************************)
MaxChunks == 2

MaxTicks == 3

MaxInFlight == 1

\* the clock advances in steps of half a pauseDurationMs
TickMs == ServerOptions.pauseDurationMs \div 2

\* 0x30: the energy path gives it 1056, above the threshold of 1000
Loud == 3 * 16

\* 0x00: the energy path gives it 132
Quiet == 0 * 16

ChunkRuns == {<<Loud, 375>>, <<Quiet, 375>>, <<Quiet, 1>>}

\* the payloads of media messages: well-formed base64 of one run of audio,
\* '=' (truthy text that decodes to no bytes) and '' (no payload)
Payloads ==
    {[form |-> "std", runs |-> <<r>>] : r \in ChunkRuns}
      \cup {[form |-> "loose", runs |-> << >>], [form |-> "empty", runs |-> << >>]}

Sid == "CA1"

NoSid == "<null>"

\* the keys of mediaStreams: callSid, `audioBuffer_${callSid}` and
\* `interval_${callSid}`
SidKey(sid) == sid

\* one key for the buffers of all calls
BufferKeyShared(sid) == "audioBuffer_"

BufferKey(sid) == "audioBuffer_" \o sid

IntervalKey(sid) == "interval_" \o sid

Unborn == AudioBufferNew(ServerOptions, Null)

\* the CallStatus values of a status callback: the two that end a call and
\* one that does not
CallStatuses == {"completed", "failed", "in-progress"}

NoBackend == [ok |-> FALSE, text |-> NoText, cause |-> "<no request>"]

NoEvent ==
    [op |-> "init", added |-> FALSE, chunk |-> NoSegment,
     flushStarted |-> FALSE, flushCalls |-> 0, strategy |-> 0,
     outcome |-> "none", returned |-> "none", segment |-> NoSegment,
     backend |-> NoBackend, stt |-> NoStt, transcript |-> NoText, isFinal |-> FALSE,
     callStatus |-> "<none>"]

VARIABLES
    now,            \* Date.now()
    openai,         \* whisperSTT.mjs:21  TRUE when the client exists
    wsOpen,         \* the call's WebSocket is open
    callSid,        \* serverWithMediaStreams.mjs:128
    mediaStreams,   \* serverWithMediaStreams.mjs:22  the keys of the Map
    intervalActive, \* the setInterval of line 193 has not been cleared
    ab,             \* the AudioBuffer of the call
    inflight,       \* the number of flushes awaiting transcribeAudio
    event,          \* what the last step did
    appended,       \* the chunks appended since the buffer was last emptied
    failed,         \* some transcription of the call has failed
    tornDown,       \* the call's 'stop' has been handled
    codecIn,        \* a mu-law byte
    codecOut,       \* its decoded sample
    calls,          \* two connections side by side: the state of each
    registry,       \* their mediaStreams: key -> the connection that set it
    actor,          \* which of the two took the last step (0: neither)
    feed,           \* a scripted run: how far the script has got
    energyOut,      \* the energy of one frame of the byte codecIn
    wavIn,          \* a mu-law segment
    wavOut,         \* its WAV file
    optionsIn,      \* the options a caller passes to the constructor
    pending,        \* the segments awaiting transcribeAudio, oldest first
    trail           \* what has been accepted, submitted and delivered so far

vars == <<now, openai, wsOpen, callSid, mediaStreams, intervalActive, ab,
          inflight, event, appended, failed, tornDown, codecIn, codecOut,
          calls, registry, actor, feed, energyOut, wavIn, wavOut,
          optionsIn, pending, trail>>

serverVars == <<now, openai, wsOpen, callSid, mediaStreams, intervalActive, ab,
                inflight, event, appended, failed, tornDown>>

codecVars == <<codecIn, codecOut>>

pairVars == <<calls, registry, actor>>

feedVars == <<feed>>

pureVars == <<energyOut, wavIn, wavOut>>

traceVars == <<optionsIn, pending, trail>>

\* new AudioBuffer(cb) with no options
NoOptions ==
    [minBufferDurationMs |-> Undefined, maxBufferDurationMs |-> Undefined,
     pauseDurationMs |-> Undefined, energyThreshold |-> Undefined]

\* nothing accepted, submitted or delivered yet
NoTrail ==
    [arrivals |-> 0, framesIn |-> 0, segments |-> 0, framesOut |-> 0,
     submitted |-> << >>, delivered |-> << >>]

InitTrace ==
    /\ optionsIn = NoOptions
    /\ pending = << >>
    /\ trail = NoTrail

\* no scripted run
NoFeed == [script |-> "<none>", fed |-> 0, polls |-> 0, segments |-> << >>,
           done |-> FALSE]

\* no energy measured
NoEnergy == [sumSquares |-> <<0, 0>>, length |-> 0 - 1]

InitRest ==
    /\ feed = NoFeed
    /\ energyOut = NoEnergy
    /\ wavIn = << >>
    /\ wavOut = << >>
    /\ InitTrace

Conns == {1, 2}

\* the call ids the two connections may announce, of Twilio's form
PairSids == {"CA1", "CA2"}

\* the first connection carries call CA1, the second either call
SidsOf(c) == IF c = 1 THEN {"CA1"} ELSE PairSids

\* the keys the two connections can set
PairKeys == UNION {{SidKey(s), BufferKey(s), IntervalKey(s)} : s \in PairSids}

\* a connection before its 'start' (serverWithMediaStreams.mjs:125-129)
NoCall ==
    [callSid |-> NoSid, wsOpen |-> TRUE, ab |-> Unborn, timer |-> FALSE,
     inflight |-> 0]

InitPair ==
    /\ calls = [c \in Conns |-> NoCall]
    /\ registry = [k \in PairKeys |-> 0]
    /\ actor = 0

InitCall ==
    /\ now = TickMs
    /\ openai \in BOOLEAN
    /\ wsOpen = TRUE
    /\ callSid = NoSid
    /\ mediaStreams = {}
    /\ intervalActive = FALSE
    /\ ab = Unborn
    /\ inflight = 0
    /\ event = NoEvent
    /\ appended = << >>
    /\ failed = FALSE
    /\ tornDown = FALSE
    /\ InitPair

InitServer ==
    /\ InitCall
    /\ InitRest

Init ==
    /\ InitServer
    /\ codecIn = 0
    /\ codecOut = NoSample

\* the chunks appended since the buffer was last emptied, after a step that
\* leaves the buffer as nextBuffer
Since(nextBuffer, kept) == IF nextBuffer = << >> THEN << >> ELSE kept

\* time passes
Tick ==
    /\ now < TickMs * MaxTicks
    /\ now' = now + TickMs
    /\ event' = [NoEvent EXCEPT !.op = "tick"]
    /\ UNCHANGED <<openai, wsOpen, callSid, mediaStreams, intervalActive, ab,
                   inflight, appended, failed, tornDown>>
    /\ UNCHANGED <<codecVars, pairVars, feedVars, pureVars, traceVars>>

\* serverWithMediaStreams.mjs:141-198  the 'start' message
Start ==
    /\ wsOpen
    /\ callSid = NoSid
    /\ callSid' = Sid
    /\ ab' = AudioBufferNew(ServerOptions, now)
    /\ mediaStreams' = mediaStreams \cup {SidKey(Sid), BufferKey(Sid), IntervalKey(Sid)}
    /\ intervalActive' = TRUE
    /\ event' = [NoEvent EXCEPT !.op = "start"]
    /\ appended' = << >>
    /\ UNCHANGED <<now, openai, wsOpen, inflight, failed, tornDown>>
    /\ UNCHANGED <<codecVars, pairVars, feedVars, pureVars, traceVars>>

\* line 214 without its test of the payload
MediaAnyPayload(payload) ==
    /\ wsOpen
    /\ IF BufferKey(callSid) \in mediaStreams
       THEN /\ Len(ab.buffer) < MaxChunks
            /\ ab' = addChunk(ab, payload, now)
            /\ event' = [NoEvent EXCEPT !.op = "media", !.added = TRUE,
                                        !.chunk = payload]
            /\ appended' = Append(appended, payload)
       ELSE /\ event' = [NoEvent EXCEPT !.op = "media", !.chunk = payload]
            /\ UNCHANGED <<ab, appended>>
    /\ UNCHANGED <<now, openai, wsOpen, callSid, mediaStreams, intervalActive,
                   inflight, failed, tornDown>>
    /\ UNCHANGED <<codecVars, pairVars, feedVars, pureVars, traceVars>>

\* serverWithMediaStreams.mjs:200-217  a 'media' message
Media(payload) ==
    /\ wsOpen
    /\ IF BufferKey(callSid) \in mediaStreams /\ TruthyText(payload)
       THEN /\ Len(ab.buffer) < MaxChunks
            /\ ab' = addChunk(ab, payload, now)
            /\ event' = [NoEvent EXCEPT !.op = "media", !.added = TRUE,
                                        !.chunk = payload]
            /\ appended' = Append(appended, payload)
       ELSE /\ event' = [NoEvent EXCEPT !.op = "media", !.chunk = payload]
            /\ UNCHANGED <<ab, appended>>
    /\ UNCHANGED <<now, openai, wsOpen, callSid, mediaStreams, intervalActive,
                   inflight, failed, tornDown>>
    /\ UNCHANGED <<codecVars, pairVars, feedVars, pureVars, traceVars>>

\* the effect of one run of flush, up to its first suspension, on the
\* transcriptions in flight and on the record of the step
Flushed(op, c) ==
    /\ ab' = c.flush.self
    /\ inflight' = IF c.flush.returned = "awaiting" THEN inflight + 1 ELSE inflight
    /\ inflight' <= MaxInFlight
    /\ event' = [NoEvent EXCEPT !.op = op, !.flushStarted = c.flushStarted,
                                !.flushCalls = c.flushCalls, !.strategy = c.strategy,
                                !.outcome = c.flush.outcome,
                                !.returned = c.flush.returned,
                                !.segment = c.flush.segment, !.stt = c.flush.stt,
                                !.transcript = c.flush.transcript,
                                !.isFinal = (c.flush.transcript # NoText)]
    /\ appended' = Since(c.flush.self.buffer, appended)
    /\ failed' = (failed \/ c.flush.stt.settled = "rejected")

\* a poll whose check fails would stop the timer
PollStopsOnFailure ==
    /\ intervalActive
    /\ \E fsOk \in BOOLEAN :
          LET c == checkAndTranscribe(ab, openai, fsOk, now)
          IN  /\ Flushed("poll", c)
              /\ intervalActive' = (c.flush.stt.settled # "rejected")
    /\ UNCHANGED <<now, openai, wsOpen, callSid, mediaStreams, tornDown>>
    /\ UNCHANGED <<codecVars, pairVars, feedVars, pureVars, traceVars>>

\* serverWithMediaStreams.mjs:193-195  the timer fires
Poll ==
    /\ intervalActive
    /\ \E fsOk \in BOOLEAN :
          Flushed("poll", checkAndTranscribe(ab, openai, fsOk, now))
    /\ UNCHANGED <<now, openai, wsOpen, callSid, mediaStreams, intervalActive, tornDown>>
    /\ UNCHANGED <<codecVars, pairVars, feedVars, pureVars, traceVars>>

\* whisperSTT.mjs:155-166 and 257-271  the Whisper request of a pending
\* flush returns and the flush runs to its end
Complete ==
    \E backend \in BackendOutcomes :
       LET stt == transcribeAudio(openai, TRUE, backend)
           r   == flushResume(ab, stt, now)
       IN  /\ inflight > 0
           /\ ab' = r.self
           /\ inflight' = inflight - 1
           /\ event' = [NoEvent EXCEPT !.op = "complete", !.returned = r.returned,
                                       !.backend = backend, !.stt = stt,
                                       !.transcript = r.transcript,
                                       !.isFinal = (r.transcript # NoText /\ r.isFinal)]
           /\ appended' = Since(r.self.buffer, appended)
           /\ failed' = (failed \/ stt.settled = "rejected")
           /\ UNCHANGED <<now, openai, wsOpen, callSid, mediaStreams, intervalActive,
                          tornDown>>
           /\ UNCHANGED <<codecVars, pairVars, feedVars, pureVars, traceVars>>

\* serverWithMediaStreams.mjs:219-238  the 'stop' message
Stop ==
    /\ wsOpen
    /\ IF callSid # NoSid
       THEN /\ IF BufferKey(callSid) \in mediaStreams
               THEN \E fsOk \in BOOLEAN :
                      Flushed("stop", [flushStarted |-> TRUE, flushCalls |-> 1,
                                       strategy |-> 0,
                                       flush |-> flushBegin(ab, openai, fsOk, now)])
               ELSE /\ event' = [NoEvent EXCEPT !.op = "stop"]
                    /\ UNCHANGED <<ab, inflight, appended, failed>>
            /\ intervalActive' = IF IntervalKey(callSid) \in mediaStreams
                                 THEN FALSE ELSE intervalActive
            /\ mediaStreams' = mediaStreams
                  \ {BufferKey(callSid), IntervalKey(callSid), SidKey(callSid)}
            /\ tornDown' = TRUE
       ELSE /\ event' = [NoEvent EXCEPT !.op = "stop"]
            /\ UNCHANGED <<ab, inflight, appended, failed, intervalActive,
                           mediaStreams, tornDown>>
    /\ UNCHANGED <<now, openai, wsOpen, callSid>>
    /\ UNCHANGED <<codecVars, pairVars, feedVars, pureVars, traceVars>>

\* serverWithMediaStreams.mjs:248-253  the WebSocket closes
Close ==
    /\ wsOpen
    /\ wsOpen' = FALSE
    /\ mediaStreams' = IF callSid # NoSid THEN mediaStreams \ {SidKey(callSid)}
                       ELSE mediaStreams
    /\ event' = [NoEvent EXCEPT !.op = "close"]
    /\ UNCHANGED <<now, openai, callSid, intervalActive, ab, inflight, appended,
                   failed, tornDown>>
    /\ UNCHANGED <<codecVars, pairVars, feedVars, pureVars, traceVars>>

\* serverWithMediaStreams.mjs:43-63  POST /webhook/status for the call
Status(callStatus) ==
    /\ mediaStreams' = IF /\ callStatus \in {"completed", "failed"}
                          /\ SidKey(Sid) \in mediaStreams
                       THEN mediaStreams \ {SidKey(Sid)}
                       ELSE mediaStreams
    /\ event' = [NoEvent EXCEPT !.op = "status", !.callStatus = callStatus]
    /\ UNCHANGED <<now, openai, wsOpen, callSid, intervalActive, ab, inflight,
                   appended, failed, tornDown>>
    /\ UNCHANGED <<codecVars, pairVars, feedVars, pureVars, traceVars>>

Next ==
    \/ Tick
    \/ Start
    \/ \E payload \in Payloads : Media(payload)
    \/ Poll
    \/ Complete
    \/ Stop
    \/ Close

Spec == Init /\ [][Next]_vars

(***************************************************************************)
(* The server with the status callback of the call, the third way a call   *)
(* ends.  The callback touches the call's entry of mediaStreams only.      *)
(***************************************************************************)
NextEndings ==
    \/ Next
    \/ \E callStatus \in CallStatuses : Status(callStatus)

SpecEndings == Init /\ [][NextEndings]_vars

(***************************************************************************)
(* The server fed with short chunks: 0.1 s and 0.08 s of speech and 0.1 s  *)
(* of silence, none of which reaches minBufferDurationMs.                  *)
(***************************************************************************)
ShortRuns == {<<Loud, 5>>, <<Loud, 4>>, <<Quiet, 5>>}

\* 0x2B: the energy path gives it 880
EdgeLow == 2 * 16 + 11

\* 0x31: the energy path gives it 1120
EdgeHigh == 3 * 16 + 1

\* 2 s of audio whose energy is 1000 exactly:
\* 53 * 880^2 + 47 * 1120^2 = 100 * 1000^2
EdgePayload == [form |-> "std", runs |-> <<<<EdgeLow, 53>>, <<EdgeHigh, 47>>>>]

ShortPayloads ==
    {[form |-> "std", runs |-> <<r>>] : r \in ShortRuns} \cup {EdgePayload}

NextShort ==
    \/ Tick
    \/ Start
    \/ \E payload \in ShortPayloads : Media(payload)
    \/ Poll
    \/ Complete
    \/ Stop
    \/ Close

SpecShort == Init /\ [][NextShort]_vars

(***************************************************************************)
(* Two connections side by side on the one mediaStreams map, each with the *)
(* handlers of serverWithMediaStreams.mjs:125-253 and its own callSid.     *)
(***************************************************************************)
PairPayloads ==
    {[form |-> "std", runs |-> <<r>>] : r \in {<<Loud, 375>>}}

\* mediaStreams.has(key); 0 stands for no entry
Has(key) == key \in DOMAIN registry /\ registry[key] # 0

\* mediaStreams.get(key): the connection whose 'start' set the entry
Owner(key) == IF Has(key) THEN registry[key] ELSE 0

\* mediaStreams.delete of the given keys
Deleted(keys) == [k \in DOMAIN registry |-> IF k \in keys THEN 0 ELSE registry[k]]

singleVars ==
    <<openai, wsOpen, callSid, mediaStreams, intervalActive, ab, inflight,
      event, appended, failed, tornDown>>

\* the buffer after one run of flush up to its first suspension
AfterFlush(call, r) ==
    [call EXCEPT !.ab = r.self,
                 !.inflight = IF r.returned = "awaiting" THEN @ + 1 ELSE @]

PairTick ==
    /\ now < TickMs * (MaxTicks - 1)
    /\ now' = now + TickMs
    /\ actor' = 0
    /\ UNCHANGED <<calls, registry, singleVars, codecVars, feedVars, pureVars, traceVars>>

\* lines 141-198
PairStart(c, sid) ==
    /\ calls[c].wsOpen
    /\ calls[c].callSid = NoSid
    /\ calls' = [calls EXCEPT ![c] = [@ EXCEPT !.callSid = sid,
                                               !.ab = AudioBufferNew(ServerOptions, now),
                                               !.timer = TRUE]]
    /\ registry' = [registry EXCEPT ![SidKey(sid)] = c,
                                    ![BufferKey(sid)] = c,
                                    ![IntervalKey(sid)] = c]
    /\ actor' = c
    /\ UNCHANGED <<now, singleVars, codecVars, feedVars, pureVars, traceVars>>

\* lines 200-217
PairMedia(c, payload) ==
    LET o == Owner(BufferKey(calls[c].callSid))
    IN  /\ calls[c].wsOpen
        /\ IF o # 0 /\ TruthyText(payload)
           THEN /\ Len(calls[o].ab.buffer) < MaxChunks
                /\ calls' = [calls EXCEPT ![o].ab = addChunk(@, payload, now)]
           ELSE UNCHANGED calls
        /\ actor' = c
        /\ UNCHANGED <<now, registry, singleVars, codecVars, feedVars, pureVars, traceVars>>

\* lines 193-195: the timer of connection c fires on the buffer it created
PairPoll(c) ==
    /\ calls[c].timer
    /\ \E fsOk \in BOOLEAN :
          calls' = [calls EXCEPT ![c] =
                      AfterFlush(@, checkAndTranscribe(@.ab, openai, fsOk, now).flush)]
    /\ calls'[c].inflight <= MaxInFlight
    /\ actor' = c
    /\ UNCHANGED <<now, registry, singleVars, codecVars, feedVars, pureVars, traceVars>>

\* whisperSTT.mjs:257-271: a pending flush of connection c's buffer ends
PairComplete(c) ==
    /\ calls[c].inflight > 0
    /\ \E backend \in BackendOutcomes :
          calls' = [calls EXCEPT ![c] =
                      [@ EXCEPT !.ab = flushResume(@, transcribeAudio(openai, TRUE, backend),
                                                   now).self,
                                !.inflight = @ - 1]]
    /\ actor' = c
    /\ UNCHANGED <<now, registry, singleVars, codecVars, feedVars, pureVars, traceVars>>

\* lines 219-238
PairStop(c) ==
    LET sid == calls[c].callSid
        bo  == Owner(BufferKey(sid))
        io  == Owner(IntervalKey(sid))
    IN  /\ calls[c].wsOpen
        /\ IF sid # NoSid
           THEN /\ \E fsOk \in BOOLEAN :
                     calls' = [o \in Conns |->
                                 LET f == IF o = bo
                                          THEN AfterFlush(calls[o],
                                                 flushBegin(calls[o].ab, openai, fsOk, now))
                                          ELSE calls[o]
                                 IN  IF o = io THEN [f EXCEPT !.timer = FALSE] ELSE f]
                /\ \A o \in Conns : calls'[o].inflight <= MaxInFlight
                /\ registry' = Deleted({SidKey(sid), BufferKey(sid), IntervalKey(sid)})
           ELSE UNCHANGED <<calls, registry>>
        /\ actor' = c
        /\ UNCHANGED <<now, singleVars, codecVars, feedVars, pureVars, traceVars>>

NextPair ==
    \/ PairTick
    \/ \E c \in Conns : \E sid \in SidsOf(c) : PairStart(c, sid)
    \/ \E c \in Conns, payload \in PairPayloads : PairMedia(c, payload)
    \/ \E c \in Conns : PairPoll(c)
    \/ \E c \in Conns : PairComplete(c)
    \/ \E c \in Conns : PairStop(c)

SpecPair == Init /\ [][NextPair]_vars

(***************************************************************************)
(* Scripted runs: one AudioBuffer, driven as the server drives it (chunks  *)
(* of one frame every 20 ms, checkAndTranscribe every 500 ms, one flush at *)
(* teardown), fed with a fixed script of chunks.                           *)
(***************************************************************************)
\* 0xFF: the mu-law code of silence; the energy path gives it 32256
SilenceCode == 255

\* the audio of one media message of Twilio: 20 ms
FrameMs == (1000 * FrameBytes) \div SampleRate

\* serverWithMediaStreams.mjs:195
PollMs == 500

FramePayload(byte) == [form |-> "std", runs |-> <<<<byte, 1>>>>]

\* the chunks of a script: 2 s of silence; 1 s of tone, then 2 s of silence
ScriptLength(script) == IF script = "silence" THEN 2 * 50 ELSE 3 * 50

ScriptChunk(script, k) ==
    IF script = "tone" /\ k <= 50 THEN FramePayload(Loud)
    ELSE FramePayload(SilenceCode)

\* the options of the buffer of a script; what is not named is left to the
\* defaults of the constructor (whisperSTT.mjs:196-199)
ScriptOptions(script) ==
    [minBufferDurationMs |-> 500,
     maxBufferDurationMs |-> Undefined,
     pauseDurationMs     |-> IF script = "tone" THEN 500 ELSE Undefined,
     energyThreshold     |-> 1000]

\* the last poll of a run: 4 s after its start
LastPoll == 8

InitFeed ==
    /\ now = TickMs
    /\ openai \in BOOLEAN
    /\ wsOpen = TRUE
    /\ callSid = Sid
    /\ mediaStreams = {SidKey(Sid), BufferKey(Sid), IntervalKey(Sid)}
    /\ \E script \in {"silence", "tone"} :
          /\ feed = [NoFeed EXCEPT !.script = script]
          /\ ab = AudioBufferNew(ScriptOptions(script), TickMs)
    /\ intervalActive = TRUE
    /\ inflight = 0
    /\ event = NoEvent
    /\ appended = << >>
    /\ failed = FALSE
    /\ tornDown = FALSE
    /\ energyOut = NoEnergy
    /\ wavIn = << >>
    /\ wavOut = << >>
    /\ InitTrace
    /\ InitPair
    /\ codecIn = 0
    /\ codecOut = NoSample

\* the instants of the next chunk and of the next poll
NextChunkAt == TickMs + FrameMs * (feed.fed + 1)

NextPollAt == TickMs + PollMs * (feed.polls + 1)

\* the segments handed to transcription so far, in frames
Submitted(e) ==
    IF e.outcome = "submitted"
    THEN Append(feed.segments, Frames(Base64Decode(e.segment)))
    ELSE feed.segments

\* the next chunk of the script arrives (addChunk)
FeedChunk ==
    /\ ~feed.done
    /\ feed.fed < ScriptLength(feed.script)
    /\ NextChunkAt <= NextPollAt \/ feed.polls = LastPoll
    /\ now' = NextChunkAt
    /\ ab' = addChunk(ab, ScriptChunk(feed.script, feed.fed + 1), now')
    /\ event' = [NoEvent EXCEPT !.op = "media", !.added = TRUE,
                                !.chunk = ScriptChunk(feed.script, feed.fed + 1)]
    /\ appended' = Append(appended, ScriptChunk(feed.script, feed.fed + 1))
    /\ feed' = [feed EXCEPT !.fed = @ + 1]
    /\ UNCHANGED <<openai, wsOpen, callSid, mediaStreams, intervalActive,
                   inflight, failed, tornDown>>
    /\ UNCHANGED <<codecVars, pairVars, pureVars, traceVars>>

\* the timer fires (checkAndTranscribe)
FeedPoll ==
    /\ intervalActive
    /\ feed.polls < LastPoll
    /\ NextPollAt <= NextChunkAt \/ feed.fed = ScriptLength(feed.script)
    /\ now' = NextPollAt
    /\ \E fsOk \in BOOLEAN :
          Flushed("poll", checkAndTranscribe(ab, openai, fsOk, now'))
    /\ feed' = [feed EXCEPT !.polls = @ + 1, !.segments = Submitted(event')]
    /\ UNCHANGED <<openai, wsOpen, callSid, mediaStreams, intervalActive, tornDown>>
    /\ UNCHANGED <<codecVars, pairVars, pureVars, traceVars>>

\* the Whisper request of a pending flush returns
FeedComplete ==
    /\ Complete
    /\ UNCHANGED feed

\* teardown after the last chunk: one flush, and the timer is cleared
FeedStop ==
    /\ ~feed.done
    /\ feed.fed = ScriptLength(feed.script)
    /\ \E fsOk \in BOOLEAN :
          Flushed("stop", [flushStarted |-> TRUE, flushCalls |-> 1, strategy |-> 0,
                           flush |-> flushBegin(ab, openai, fsOk, now)])
    /\ intervalActive' = FALSE
    /\ tornDown' = TRUE
    /\ feed' = [feed EXCEPT !.done = TRUE, !.segments = Submitted(event')]
    /\ UNCHANGED <<now, openai, wsOpen, callSid, mediaStreams>>
    /\ UNCHANGED <<codecVars, pairVars, pureVars, traceVars>>

NextFeed ==
    \/ FeedChunk
    \/ FeedPoll
    \/ FeedComplete
    \/ FeedStop

SpecFeed == InitFeed /\ [][NextFeed]_vars

(***************************************************************************)
(* The codec on its own: every byte through the transcription path.        *)
(***************************************************************************)
InitCodec ==
    /\ InitServer
    /\ codecIn \in Bytes
    /\ codecOut = NoSample

\* convertMulawToWAV line 75: one sample of the transcription path
DecodeSample ==
    /\ codecOut = NoSample
    /\ codecOut' = mulawToLinear(codecIn)
    /\ UNCHANGED codecIn
    /\ UNCHANGED serverVars
    /\ UNCHANGED pairVars
    /\ UNCHANGED <<feedVars, pureVars, traceVars>>

NextCodec == DecodeSample

SpecCodec == InitCodec /\ [][NextCodec]_vars

(***************************************************************************)
(* The two decodes side by side: every byte through the transcription path *)
(* and, as a frame of FrameBytes equal bytes, through the energy path.     *)
(***************************************************************************)
\* calculateAudioEnergy of one frame of the byte
MeasureFrame ==
    /\ energyOut = NoEnergy
    /\ energyOut' = calculateAudioEnergy(<<<<codecIn, 1>>>>)
    /\ UNCHANGED <<wavIn, wavOut>>
    /\ UNCHANGED <<serverVars, codecVars, pairVars, feedVars, traceVars>>

NextEnergy ==
    \/ DecodeSample
    \/ MeasureFrame

SpecEnergy == InitCodec /\ [][NextEnergy]_vars

(***************************************************************************)
(* Claims                                                                  *)
(***************************************************************************)

\* C1: for every mu-law byte, the sample the transcription path produces
\* equals the canonical G.711 decode of that byte.
C1_DecodeMatchesG711 ==
    codecOut # NoSample => codecOut = G711Reference(codecIn)

\* the buffered audio in milliseconds is at least ms (d * 1000 >= ms with
\* d = bytes / 8000 seconds)
AudioAtLeast(self, ms) == BufferedBytes(self.buffer) >= 8 * ms

IsSet(x) == x # Null

\* (a) the sentence-boundary condition
PauseCondition(self, t) ==
    /\ AudioAtLeast(self, self.minBufferDurationMs)
    /\ IsSet(self.silenceStartTime)
    /\ t - self.silenceStartTime >= self.pauseDurationMs

\* (b) the duration cap
MaxCondition(self, t) == AudioAtLeast(self, self.maxBufferDurationMs)

\* (c) the trailing-silence condition
TrailingCondition(self, t) ==
    /\ AudioAtLeast(self, self.minBufferDurationMs)
    /\ IsSet(self.lastAudioTime)
    /\ t - self.lastAudioTime >= self.pauseDurationMs

\* C2: a poll on a non-empty buffer starts a flush exactly when (a), (b) or
\* (c) holds, whatever the order of the three, and starts at most one.
C2_PollFlushesIffAnyCondition ==
    [][(event'.op = "poll" /\ Len(ab.buffer) > 0)
         => /\ event'.flushStarted
                 <=> (\/ TrailingCondition(ab, now)
                      \/ MaxCondition(ab, now)
                      \/ PauseCondition(ab, now))
            /\ event'.flushCalls <= 1
            /\ event'.flushStarted <=> (event'.flushCalls = 1)]_vars

\* a poll started a flush on condition (c) alone
C2_Witness ==
    /\ event.op = "poll"
    /\ event.flushStarted
    /\ event.strategy = 3

\* the bytes of chunks joined one after the other, first chunk first
RECURSIVE JoinInOrder(_)
JoinInOrder(chunks) ==
    IF chunks = << >> THEN << >>
    ELSE Concat2(JoinInOrder(SubSeq(chunks, 1, Len(chunks) - 1)),
                 Base64Decode(chunks[Len(chunks)]))

\* C3: every segment handed to transcription is the concatenation, in
\* arrival order, of exactly the chunks appended since the buffer was last
\* emptied.
C3_SegmentIsConcatenation ==
    [][event'.outcome = "submitted"
         => /\ Base64Decode(event'.segment) = JoinInOrder(appended)
            /\ appended = ab.buffer]_vars

\* a segment of two different chunks was handed to transcription
C3_Witness ==
    /\ event.outcome = "submitted"
    /\ Len(Base64Decode(event.segment)) = 2

\* C4: every addChunk appends exactly the given chunk at the end, speech or
\* silence, and leaves the chunks already buffered as they were.
C4_AddChunkAppendsOne ==
    [][event'.added => ab'.buffer = Append(ab.buffer, event'.chunk)]_vars

\* a silence chunk was appended behind a speech chunk
C4_Witness ==
    /\ event.added
    /\ Len(ab.buffer) = 2
    /\ ~EnergyGreater(calculateAudioEnergy(Base64Decode(event.chunk)), ab.energyThreshold)
    /\ EnergyGreater(calculateAudioEnergy(Base64Decode(ab.buffer[1])), ab.energyThreshold)

\* the combined audio is shorter than 0.1 s
TooShort(self) == BufferedBytes(self.buffer) < 800

\* the whole-segment energy is below the threshold
TooQuiet(self) ==
    EnergyLess(calculateAudioEnergy(JoinInOrder(self.buffer)), self.energyThreshold)

\* C5: a flush of a non-empty buffer that is too short or too quiet returns
\* false, calls neither the STT backend nor onTranscript, raises no error
\* and leaves the buffer empty.
C5_DiscardIsSilent ==
    [][(event'.flushCalls > 0 /\ Len(ab.buffer) > 0 /\ (TooShort(ab) \/ TooQuiet(ab)))
         => /\ event'.returned = "false"
            /\ event'.stt = NoStt
            /\ inflight' = inflight
            /\ event'.transcript = NoText
            /\ ab'.buffer = << >>]_vars

\* a segment of a speech chunk and a silence chunk was discarded as too quiet
C5_Witness ==
    /\ event.outcome = "quiet"
    /\ event.returned = "false"
    /\ event.strategy = 1
    /\ ab.buffer = << >>

\* C6: the resets of a successful flush concern the flushed segment only
\* and are in effect at the segment boundary: when the flush completes, the
\* frames that arrived after the boundary and the timing recorded for them
\* are left as they are, and lastTranscriptionTime is the time of the flush.
C6_ResetsAtSegmentBoundary ==
    [][(event'.op = "complete" /\ event'.returned = "true")
         => /\ ab'.buffer = ab.buffer
            /\ ab'.lastTranscriptionTime = now
            /\ IF ab.buffer = << >>
               THEN /\ ab'.lastAudioTime = Null
                    /\ ab'.silenceStartTime = Null
               ELSE /\ ab'.lastAudioTime = ab.lastAudioTime
                    /\ ab'.silenceStartTime = ab.silenceStartTime]_vars

\* C7: when the STT call of a flush fails, the frames and the timing the
\* buffer holds after the failure is handled are those it held before.
C7_FailureLeavesBufferAlone ==
    [][(event'.op = "complete" /\ event'.stt.settled = "rejected")
         => /\ ab'.buffer = ab.buffer
            /\ ab'.lastAudioTime = ab.lastAudioTime
            /\ ab'.silenceStartTime = ab.silenceStartTime]_vars

\* C8: flush and checkAndTranscribe never reject; a discarded or failed
\* segment is reported as a false result only.
C8_BufferOperationsNeverReject ==
    /\ event.returned \in {"none", "true", "false", "awaiting"}
    /\ (event.outcome \in {"short", "quiet"} \/ event.stt.settled = "rejected")
          => event.returned = "false"

\* the STT backend failed and the flush resolved false
C8_Witness ==
    /\ event.op = "complete"
    /\ ~event.backend.ok
    /\ event.stt.settled = "rejected"
    /\ event.returned = "false"

\* C9: transcribeAudio rejects when the backend call fails or no client is
\* configured, with the underlying cause as its error, and resolves to a
\* text only when the backend call succeeded.
C9_TranscribeRejectsWithCause ==
    /\ event.stt.settled = "resolved"
          => (openai /\ event.backend.ok /\ event.stt.text = event.backend.text)
    /\ (event.op = "complete" /\ ~event.backend.ok)
          => (event.stt.settled = "rejected" /\ event.stt.error = event.backend.cause)
    /\ (event.outcome = "submitted" /\ ~openai)
          => /\ event.stt.settled = "rejected"
             /\ event.stt.error = "OPENAI_API_KEY not found in .env.local"
             /\ ~event.stt.backendCalled

\* the backend call failed and transcribeAudio rejected with its cause
C9_Witness ==
    /\ event.op = "complete"
    /\ event.backend.cause \in Causes
    /\ event.stt.error = event.backend.cause

\* C10: until the 'stop' of the call, whatever failed or was discarded
\* before, the buffer stays registered and the timer active, a chunk that
\* arrives is appended, and a poll whose buffer meets a flush condition
\* with viable audio submits it.
C10_ErrorsDoNotEndTheBuffer ==
    [][/\ (callSid' # NoSid /\ ~tornDown')
            => (intervalActive' /\ BufferKey(callSid') \in mediaStreams')
       /\ (event'.op = "media" /\ callSid # NoSid /\ ~tornDown /\ TruthyText(event'.chunk))
            => event'.added
       /\ (/\ event'.op = "poll"
           /\ Len(ab.buffer) > 0
           /\ (PauseCondition(ab, now) \/ MaxCondition(ab, now) \/ TrailingCondition(ab, now))
           /\ ~TooShort(ab)
           /\ ~TooQuiet(ab))
            => event'.outcome = "submitted"]_vars

\* after a failed transcription, a poll submitted a later segment
C10_Witness ==
    /\ failed
    /\ ~tornDown
    /\ event.op = "poll"
    /\ event.outcome = "submitted"
    /\ event.returned = "awaiting"

\* the step handles the end of the call's media stream: a 'stop' message,
\* the close of the WebSocket, or a completed or failed status callback
StreamEnds(e) ==
    \/ e.op \in {"stop", "close"}
    \/ e.op = "status" /\ e.callStatus \in {"completed", "failed"}

\* C11: whenever the media stream of a call ends, by 'stop', by the close
\* of the WebSocket or by a completed or failed status callback, the buffer
\* of the call gets exactly one forced flush in that step and is then
\* removed from the registry, its timer with it.
C11_EveryEndingFlushesOnce ==
    [][(StreamEnds(event') /\ BufferKey(Sid) \in mediaStreams)
         => /\ event'.flushCalls = 1
            /\ BufferKey(Sid) \notin mediaStreams'
            /\ ~intervalActive']_vars

\* C12: the flush of 'stop' looks at no duration bound and no pause: it
\* submits the buffered audio exactly when that audio is at least 0.1 s
\* long and its energy is at least energyThreshold, and discards it
\* otherwise.
C12_TeardownFlushIgnoresTiming ==
    [][(event'.op = "stop" /\ event'.flushCalls = 1 /\ Len(ab.buffer) > 0)
         => IF ~TooShort(ab) /\ ~TooQuiet(ab)
            THEN /\ event'.outcome = "submitted"
                 /\ event'.stt # NoStt
                 /\ Base64Decode(event'.segment) = JoinInOrder(ab.buffer)
            ELSE /\ event'.outcome \in {"short", "quiet"}
                 /\ event'.stt = NoStt
                 /\ event'.returned = "false"
                 /\ ab'.buffer = << >>]_vars

\* 'stop' submitted exactly 0.1 s of speech, far below minBufferDurationMs,
\* with no silence observed
C12_Witness ==
    /\ event.op = "stop"
    /\ event.outcome = "submitted"
    /\ ByteLength(Base64Decode(event.segment)) * 10 = SampleRate
    /\ ab.silenceStartTime = Null

\* C13: a flush of an empty buffer returns false, hands no segment to
\* transcription, makes no STT call, raises no error and leaves the buffer
\* and its three times as they were; a second flush right after it does
\* the same.
C13_FlushOfEmptyBufferIsNoOp ==
    [][(event'.flushCalls = 1 /\ event'.op = "stop" /\ ab.buffer = << >>)
         => /\ event'.returned = "false"
            /\ event'.segment = NoSegment
            /\ event'.stt = NoStt
            /\ event'.transcript = NoText
            /\ inflight' = inflight
            /\ failed' = failed
            /\ ab' = ab
            /\ \A fsOk \in BOOLEAN :
                  LET again == flushBegin(ab', openai, fsOk, now')
                  IN  /\ again.returned = event'.returned
                      /\ again.segment = event'.segment
                      /\ again.stt = event'.stt
                      /\ again.self = ab']_vars

\* 'stop' flushed a buffer that an earlier flush had emptied and whose
\* lastAudioTime was still set
C13_Witness ==
    /\ event.op = "stop"
    /\ event.outcome = "empty"
    /\ event.returned = "false"
    /\ ab.buffer = << >>
    /\ IsSet(ab.lastAudioTime)

\* C14: for the buffer of a call, no addChunk runs between the moment a
\* flush starts awaiting the STT backend and the moment that flush ends.
C14_NoAddChunkDuringFlush ==
    [][event'.added => inflight = 0]_vars

\* the entries of mediaStreams that belong to call id sid
EntriesOf(reg, sid) ==
    [k \in {SidKey(sid), BufferKey(sid), IntervalKey(sid)} \cap DOMAIN reg |-> reg[k]]

\* C15: of two calls with different call ids, a start, media, poll, flush
\* or stop step of the one leaves the buffer, the times, the timer and the
\* mediaStreams entries of the other as they were.
C15_CallsShareNoBufferState ==
    [][\A c \in Conns :
         (/\ actor' \in Conns \ {c}
          /\ calls[c].callSid # NoSid
          /\ calls'[actor'].callSid # calls[c].callSid)
           => /\ calls'[c] = calls[c]
              /\ EntriesOf(registry', calls[c].callSid)
                    = EntriesOf(registry, calls[c].callSid)]_vars

\* two calls with different ids are under way, both with buffered audio,
\* and the second has just had a flush of its buffer submitted
C15_Witness ==
    /\ actor = 2
    /\ calls[2].inflight = 1
    /\ calls[2].ab.buffer = << >>
    /\ calls[1].callSid = "CA1"
    /\ calls[2].callSid = "CA2"
    /\ Len(calls[1].ab.buffer) > 0
    /\ calls[1].timer
    /\ Has(BufferKey("CA1"))

\* the energy is the threshold exactly
EnergyEquals(e, threshold) ==
    /\ e.length > 0
    /\ e.sumSquares = BigScale(e.length, threshold * threshold)

\* what a silence chunk arriving at time t makes of silenceStartTime
SilenceStartAfter(self, t) ==
    IF IsSet(self.lastAudioTime) /\ ~IsSet(self.silenceStartTime)
    THEN t ELSE self.silenceStartTime

\* C16: a chunk whose energy is strictly above energyThreshold sets
\* lastAudioTime to its arrival time and clears silenceStartTime; a chunk
\* whose energy equals the threshold is handled as silence.
C16_SpeechIsStrictlyAboveThreshold ==
    [][event'.added
         => LET e == calculateAudioEnergy(Base64Decode(event'.chunk))
            IN  /\ EnergyGreater(e, ab.energyThreshold)
                     => /\ ab'.lastAudioTime = now
                        /\ ab'.silenceStartTime = Null
                /\ EnergyEquals(e, ab.energyThreshold)
                     => /\ ab'.lastAudioTime = ab.lastAudioTime
                        /\ ab'.silenceStartTime = SilenceStartAfter(ab, now)]_vars

\* a chunk of energy 1000 arrived after a speech chunk and started the
\* silence
C16_Witness ==
    /\ event.added
    /\ EnergyEquals(calculateAudioEnergy(Base64Decode(event.chunk)), ab.energyThreshold)
    /\ IsSet(ab.lastAudioTime)
    /\ ab.lastAudioTime < now
    /\ ab.silenceStartTime = now

\* C17: a silence chunk sets silenceStartTime to its arrival time only when
\* lastAudioTime is set and silenceStartTime is not; otherwise
\* silenceStartTime keeps its value; it never changes lastAudioTime.
C17_SilenceStartsOnce ==
    [][(/\ event'.added
        /\ ~EnergyGreater(calculateAudioEnergy(Base64Decode(event'.chunk)),
                          ab.energyThreshold))
         => /\ ab'.silenceStartTime = SilenceStartAfter(ab, now)
            /\ ab'.lastAudioTime = ab.lastAudioTime]_vars

\* a silence chunk arrived while an earlier silence was on record, and the
\* record kept the earlier time
C17_Witness ==
    /\ event.added
    /\ ~EnergyGreater(calculateAudioEnergy(Base64Decode(event.chunk)), ab.energyThreshold)
    /\ IsSet(ab.silenceStartTime)
    /\ ab.silenceStartTime < now
    /\ ab.lastAudioTime <= ab.silenceStartTime

\* the chunk counts as speech for the buffer
IsSpeech(self, chunk) ==
    EnergyGreater(calculateAudioEnergy(Base64Decode(chunk)), self.energyThreshold)

\* every chunk of the sequence is speech
AllSpeech(self, chunks) == \A i \in 1 .. Len(chunks) : IsSpeech(self, chunks[i])

\* the buffer holds N speech chunks of at least minBufferDurationMs in all,
\* then silence chunks only, below maxBufferDurationMs together
SpeechThenSilence(self) ==
    /\ ~AudioAtLeast(self, self.maxBufferDurationMs)
    /\ \E n \in 1 .. Len(self.buffer) - 1 :
          /\ AllSpeech(self, SubSeq(self.buffer, 1, n))
          /\ \A i \in n + 1 .. Len(self.buffer) : ~IsSpeech(self, self.buffer[i])
          /\ BufferedBytes(SubSeq(self.buffer, 1, n)) >= 8 * self.minBufferDurationMs

\* C18 as stated: for N speech chunks followed by silence chunks only, a
\* poll triggers a flush exactly when the silence since the first silence
\* chunk has reached pauseDurationMs, not before.
C18_FlushWhenSilenceReachesPause ==
    [][(event'.op = "poll" /\ SpeechThenSilence(ab) /\ IsSet(ab.silenceStartTime))
         => (event'.flushStarted
               <=> now - ab.silenceStartTime >= ab.pauseDurationMs)]_vars

\* C18 amended: for N speech chunks followed by silence chunks only, a
\* poll triggers a flush exactly when lastAudioTime is set and the time
\* since lastAudioTime has reached pauseDurationMs, not before.
C18_FlushWhenSpeechIsPauseAgo ==
    [][(event'.op = "poll" /\ SpeechThenSilence(ab))
         => (event'.flushStarted
               <=> (/\ IsSet(ab.lastAudioTime)
                    /\ now - ab.lastAudioTime >= ab.pauseDurationMs))]_vars

\* a poll flushed speech followed by silence when the speech was a pause
\* ago and the silence on record was shorter than a pause
C18_Witness ==
    /\ event.op = "poll"
    /\ event.flushStarted
    /\ event.strategy = 3
    /\ Len(Base64Decode(event.segment)) = 2
    /\ IsSet(ab.silenceStartTime)
    /\ now - ab.silenceStartTime < ab.pauseDurationMs
    /\ now - ab.lastAudioTime >= ab.pauseDurationMs

\* C19: with speech chunks only in the buffer and no silence on record, a
\* poll at which the buffered audio is at least maxBufferDurationMs starts
\* a flush.
C19_CapFlushesSpeechOnly ==
    [][(/\ event'.op = "poll"
        /\ Len(ab.buffer) > 0
        /\ AllSpeech(ab, ab.buffer)
        /\ ~IsSet(ab.silenceStartTime)
        /\ AudioAtLeast(ab, ab.maxBufferDurationMs))
         => /\ event'.flushStarted
            /\ event'.flushCalls = 1
            /\ Base64Decode(event'.segment) = JoinInOrder(ab.buffer)]_vars

\* a poll flushed 15 s of speech in the instant its last chunk arrived, no
\* silence on record
C19_Witness ==
    /\ event.op = "poll"
    /\ event.strategy = 2
    /\ event.returned = "awaiting"
    /\ Base64Decode(event.segment) = <<<<Loud, 750>>>>
    /\ ab.silenceStartTime = Null
    /\ ab.lastAudioTime = now

\* C20: with a single speech chunk shorter than minBufferDurationMs in the
\* buffer, a poll starts no flush, however late it comes.
C20_ShortSpeechIsNotFlushed ==
    [][(/\ event'.op = "poll"
        /\ Len(ab.buffer) = 1
        /\ IsSpeech(ab, ab.buffer[1])
        /\ ~AudioAtLeast(ab, ab.minBufferDurationMs)
        /\ ~AudioAtLeast(ab, ab.maxBufferDurationMs))
         => /\ ~event'.flushStarted
            /\ event'.flushCalls = 0
            /\ event'.stt = NoStt
            /\ ab' = ab]_vars

\* a poll left 0.1 s of speech alone a pause after it arrived
C20_Witness ==
    /\ event.op = "poll"
    /\ ~event.flushStarted
    /\ Len(ab.buffer) = 1
    /\ IsSpeech(ab, ab.buffer[1])
    /\ ByteLength(Base64Decode(ab.buffer[1])) * 10 = SampleRate
    /\ now - ab.lastAudioTime >= ab.pauseDurationMs

\* C21: after 100 chunks of 160 bytes of 0xFF went into a buffer with
\* energyThreshold 1000 and minBufferDurationMs 500, a flush returns no
\* segment and makes no STT call.
C21_SilenceIsNeverSubmitted ==
    [][(/\ feed.script = "silence"
        /\ feed.fed = ScriptLength("silence")
        /\ event'.flushCalls = 1
        /\ Len(ab.buffer) = ScriptLength("silence"))
         => /\ event'.outcome # "submitted"
            /\ event'.segment = NoSegment
            /\ event'.stt = NoStt]_vars

\* C22: when 1 s of tone chunks and then 2 s of silence chunks went through
\* a buffer with pauseDurationMs 500, polled every 500 ms and torn down at
\* the end, exactly one segment was submitted and it is about 1 s long: the
\* tone and less than a second of the silence behind it.
C22_OneSegmentOfTheTone ==
    (feed.script = "tone" /\ feed.done /\ inflight = 0)
      => /\ Len(feed.segments) = 1
         /\ feed.segments[1] * FrameMs >= 1000
         /\ feed.segments[1] * FrameMs < 2000

(***************************************************************************)
(* convertMulawToWAV on its own: segments of up to MaxWavLen bytes.        *)
(***************************************************************************)
MaxWavLen == 3

\* bytes of both signs, of the extremes and of the middle of the range
WavBytes == {0, 48, 127, 128, 255}

RECURSIVE SeqsUpTo(_, _)
SeqsUpTo(S, n) ==
    IF n = 0 THEN {<< >>}
    ELSE LET shorter == SeqsUpTo(S, n - 1)
         IN  shorter \cup {Append(q, x) : q \in {r \in shorter : Len(r) = n - 1}, x \in S}

InitWav ==
    /\ InitCall
    /\ feed = NoFeed
    /\ energyOut = NoEnergy
    /\ codecIn = 0
    /\ codecOut = NoSample
    /\ wavIn \in SeqsUpTo(WavBytes, MaxWavLen)
    /\ wavOut = << >>
    /\ InitTrace

\* transcribeAudio line 110: the segment is converted
ConvertSegment ==
    /\ wavOut = << >>
    /\ wavOut' = convertMulawToWAV(wavIn)
    /\ UNCHANGED <<wavIn, energyOut>>
    /\ UNCHANGED <<serverVars, codecVars, pairVars, feedVars, traceVars>>

NextWav == ConvertSegment

SpecWav == InitWav /\ [][NextWav]_vars

(***************************************************************************)
(* The constructor on its own: a caller's options, each omitted, 0 or a    *)
(* value of its own, and the operations that follow on the buffer.         *)
(***************************************************************************)
\* what a caller may pass for one option
OptionValues(given) == {Undefined, 0, given}

ConfigOptions ==
    [minBufferDurationMs : OptionValues(2500),
     maxBufferDurationMs : OptionValues(7500),
     pauseDurationMs     : OptionValues(750),
     energyThreshold     : OptionValues(500)]

InitConfig ==
    /\ InitCall
    /\ feed = NoFeed
    /\ energyOut = NoEnergy
    /\ wavIn = << >>
    /\ wavOut = << >>
    /\ optionsIn \in ConfigOptions
    /\ pending = << >>
    /\ trail = NoTrail
    /\ codecIn = 0
    /\ codecOut = NoSample

\* new AudioBuffer(cb, options)
Construct ==
    /\ event.op = "init"
    /\ ab' = AudioBufferNew(optionsIn, now)
    /\ event' = [NoEvent EXCEPT !.op = "construct"]
    /\ UNCHANGED <<now, openai, wsOpen, callSid, mediaStreams, intervalActive,
                   inflight, appended, failed, tornDown>>
    /\ UNCHANGED <<codecVars, pairVars, feedVars, pureVars, traceVars>>

\* addChunk on the constructed buffer
ConfigChunk ==
    /\ event.op # "init"
    /\ Len(ab.buffer) < 1
    /\ \E byte \in {Loud, Quiet} :
          LET payload == [form |-> "std", runs |-> <<<<byte, 375>>>>]
          IN  /\ ab' = addChunk(ab, payload, now)
              /\ event' = [NoEvent EXCEPT !.op = "media", !.added = TRUE,
                                          !.chunk = payload]
              /\ appended' = Append(appended, payload)
    /\ UNCHANGED <<now, openai, wsOpen, callSid, mediaStreams, intervalActive,
                   inflight, failed, tornDown>>
    /\ UNCHANGED <<codecVars, pairVars, feedVars, pureVars, traceVars>>

\* checkAndTranscribe on the constructed buffer
ConfigPoll ==
    /\ event.op # "init"
    /\ Flushed("poll", checkAndTranscribe(ab, openai, TRUE, now))
    /\ UNCHANGED <<now, openai, wsOpen, callSid, mediaStreams, intervalActive, tornDown>>
    /\ UNCHANGED <<codecVars, pairVars, feedVars, pureVars, traceVars>>

\* flush on the constructed buffer
ConfigFlush ==
    /\ event.op # "init"
    /\ Len(ab.buffer) > 0
    /\ Flushed("flush", [flushStarted |-> TRUE, flushCalls |-> 1, strategy |-> 0,
                         flush |-> flushBegin(ab, openai, TRUE, now)])
    /\ UNCHANGED <<now, openai, wsOpen, callSid, mediaStreams, intervalActive, tornDown>>
    /\ UNCHANGED <<codecVars, pairVars, feedVars, pureVars, traceVars>>

NextConfig ==
    \/ Construct
    \/ ConfigChunk
    \/ ConfigPoll
    \/ ConfigFlush
    \/ Complete

SpecConfig == InitConfig /\ [][NextConfig]_vars

(***************************************************************************)
(* One call with its transcriptions told apart: every accepted chunk has   *)
(* a number, every submitted segment has a number and the numbers of its   *)
(* chunks, and the requests in flight may return in any order.             *)
(***************************************************************************)
MaxArrivals == 4

MaxPending == 2

\* the media payloads of this run: 7.5 s of speech or of quiet audio
OverRuns == {<<Loud, 375>>, <<Quiet, 375>>}

\* the numbers of the chunks in a buffer, in buffer order
ChunkIds(chunks) == [i \in 1 .. Len(chunks) |-> chunks[i].id]

\* the frames of a sequence of runs
RECURSIVE RunFrames(_)
RunFrames(runs) ==
    IF runs = << >> THEN 0 ELSE Head(runs)[2] + RunFrames(Tail(runs))

\* a sequence without its i-th element
Without(q, i) == SubSeq(q, 1, i - 1) \o SubSeq(q, i + 1, Len(q))

InitOverlap ==
    /\ now = TickMs
    /\ openai \in BOOLEAN
    /\ wsOpen = TRUE
    /\ callSid = Sid
    /\ mediaStreams = {SidKey(Sid), BufferKey(Sid), IntervalKey(Sid)}
    /\ ab = AudioBufferNew(ServerOptions, TickMs)
    /\ intervalActive = TRUE
    /\ inflight = 0
    /\ event = NoEvent
    /\ appended = << >>
    /\ failed = FALSE
    /\ tornDown = FALSE
    /\ feed = NoFeed
    /\ energyOut = NoEnergy
    /\ wavIn = << >>
    /\ wavOut = << >>
    /\ InitTrace
    /\ InitPair
    /\ codecIn = 0
    /\ codecOut = NoSample

\* the effect of one run of flush, up to its first suspension, with the
\* segment it hands to transcribeAudio put on record
Tracked(op, c) ==
    /\ ab' = c.flush.self
    /\ event' = [NoEvent EXCEPT !.op = op, !.flushStarted = c.flushStarted,
                                !.flushCalls = c.flushCalls, !.strategy = c.strategy,
                                !.outcome = c.flush.outcome,
                                !.returned = c.flush.returned,
                                !.segment = c.flush.segment, !.stt = c.flush.stt,
                                !.transcript = c.flush.transcript,
                                !.isFinal = (c.flush.transcript # NoText)]
    /\ trail' = IF c.flush.outcome = "submitted"
                THEN [trail EXCEPT
                        !.segments = @ + 1,
                        !.framesOut = @ + RunFrames(Base64Decode(c.flush.segment)),
                        !.submitted = Append(@, ChunkIds(ab.buffer))]
                ELSE trail
    /\ pending' = IF c.flush.returned = "awaiting"
                  THEN Append(pending, trail'.segments)
                  ELSE pending
    /\ Len(pending') <= MaxPending
    /\ inflight' = Len(pending')
    /\ appended' = Since(c.flush.self.buffer, appended)
    /\ failed' = (failed \/ c.flush.stt.settled = "rejected")

OverTick ==
    /\ now < TickMs * MaxTicks
    /\ now' = now + TickMs
    /\ event' = [NoEvent EXCEPT !.op = "tick"]
    /\ UNCHANGED <<openai, wsOpen, callSid, mediaStreams, intervalActive, ab,
                   inflight, appended, failed, tornDown>>
    /\ UNCHANGED <<codecVars, pairVars, feedVars, pureVars, traceVars>>

\* serverWithMediaStreams.mjs:200-217
OverMedia ==
    /\ BufferKey(callSid) \in mediaStreams
    /\ trail.arrivals < MaxArrivals
    /\ Len(ab.buffer) < MaxChunks
    /\ \E r \in OverRuns :
          LET payload == [form |-> "std", runs |-> <<r>>, id |-> trail.arrivals + 1]
          IN  /\ ab' = addChunk(ab, payload, now)
              /\ event' = [NoEvent EXCEPT !.op = "media", !.added = TRUE]
              /\ appended' = Append(appended, payload)
              /\ trail' = [trail EXCEPT !.arrivals = @ + 1, !.framesIn = @ + r[2]]
    /\ UNCHANGED <<now, openai, wsOpen, callSid, mediaStreams, intervalActive,
                   inflight, failed, tornDown, optionsIn, pending>>
    /\ UNCHANGED <<codecVars, pairVars, feedVars, pureVars>>

\* serverWithMediaStreams.mjs:193-195
OverPoll ==
    /\ intervalActive
    /\ Tracked("poll", checkAndTranscribe(ab, openai, TRUE, now))
    /\ UNCHANGED <<now, openai, wsOpen, callSid, mediaStreams, intervalActive,
                   tornDown, optionsIn>>
    /\ UNCHANGED <<codecVars, pairVars, feedVars, pureVars>>

\* serverWithMediaStreams.mjs:219-238
OverStop ==
    /\ ~tornDown
    /\ Tracked("stop", [flushStarted |-> TRUE, flushCalls |-> 1, strategy |-> 0,
                        flush |-> flushBegin(ab, openai, TRUE, now)])
    /\ intervalActive' = FALSE
    /\ mediaStreams' = {}
    /\ tornDown' = TRUE
    /\ UNCHANGED <<now, openai, wsOpen, callSid, optionsIn>>
    /\ UNCHANGED <<codecVars, pairVars, feedVars, pureVars>>

\* whisperSTT.mjs:257-271: one of the requests in flight returns, whichever
\* the backend answers first, and its flush runs to the end
OverComplete ==
    \E i \in 1 .. Len(pending) : \E backend \in BackendOutcomes :
       LET stt == transcribeAudio(openai, TRUE, backend)
           r   == flushResume(ab, stt, now)
       IN  /\ ab' = r.self
           /\ pending' = Without(pending, i)
           /\ inflight' = Len(pending')
           /\ trail' = IF r.transcript # NoText
                       THEN [trail EXCEPT !.delivered = Append(@, pending[i])]
                       ELSE trail
           /\ event' = [NoEvent EXCEPT !.op = "complete", !.returned = r.returned,
                                       !.backend = backend, !.stt = stt,
                                       !.transcript = r.transcript,
                                       !.isFinal = (r.transcript # NoText /\ r.isFinal)]
           /\ appended' = Since(r.self.buffer, appended)
           /\ failed' = (failed \/ stt.settled = "rejected")
           /\ UNCHANGED <<now, openai, wsOpen, callSid, mediaStreams, intervalActive,
                          tornDown, optionsIn>>
           /\ UNCHANGED <<codecVars, pairVars, feedVars, pureVars>>

NextOverlap ==
    \/ OverTick
    \/ OverMedia
    \/ OverPoll
    \/ OverStop
    \/ OverComplete

SpecOverlap == InitOverlap /\ [][NextOverlap]_vars

Abs(x) == IF x < 0 THEN 0 - x ELSE x

\* the energy of one frame of byte b, as calculateAudioEnergy computes it
FrameEnergy(b) == calculateAudioEnergy(<<<<b, 1>>>>)

\* energy e is not below energy f (frames of equal length)
NotQuieter(e, f) == ~BigLess(e.sumSquares, f.sumSquares)

\* C23: a frame of the zero code 0xFF has energy 0, a frame of a
\* full-scale code (0x00, 0x80) has the largest energy of all frames, and of
\* two constant frames the one of larger G.711 amplitude never has the
\* smaller energy.
C23_EnergyFollowsAmplitude ==
    energyOut # NoEnergy
      => /\ codecIn = 255 => energyOut.sumSquares = <<0, 0>>
         /\ codecIn \in {0, 128}
              => \A b \in Bytes : NotQuieter(energyOut, FrameEnergy(b))
         /\ \A b \in Bytes :
              Abs(G711Reference(codecIn)) > Abs(G711Reference(b))
                => NotQuieter(energyOut, FrameEnergy(b))

\* C24: for every byte the sample the energy path squares has the
\* magnitude of the sample mulawToLinear gives the transcription path.
C24_EnergyDecodesAsTranscription ==
    (energyOut # NoEnergy /\ codecOut # NoSample)
      => /\ Abs(EnergyLinear(codecIn)) = Abs(codecOut)
         /\ energyOut = [sumSquares |-> BigNorm(0, codecOut * codecOut), length |-> 1]

\* C25: mulawToLinear(b) is the decode formula on the fields of ~b & 0xFF,
\* the byte complemented once, and agrees for every byte with the
\* conversion of the mu-law test script, MULAW_LOOKUP[~b & 0xFF].
C25_DecodeComplementsOnce ==
    codecOut # NoSample
      => /\ codecOut = Clamp16(DecodeFormula(Not8(codecIn)))
         /\ codecOut = mulawToWAVSample(codecIn)

\* C26: for every byte the value of the decode formula before the clamp
\* lies in -32768 .. 32767, so the clamp changes nothing and the table
\* entry is that value.
C26_ClampNeverActs ==
    codecOut # NoSample
      => LET i   == Not8(codecIn)
             raw == DecodeFormula(Not8(i))
         IN  /\ raw >= -32768
             /\ raw <= 32767
             /\ MULAW_TO_PCM(i) = raw
             /\ codecOut = raw

\* the entry of largest magnitude, -31100, was decoded
C26_Witness ==
    /\ codecOut = 0 - 31100
    /\ \A b \in Bytes : Abs(mulawToLinear(b)) <= Abs(codecOut)

\* Buffer.readUInt16LE at a byte offset counted from 0
ReadUInt16LE(buf, offset) == buf[offset + 1] + 256 * buf[offset + 2]

\* Buffer.readUInt32LE
ReadUInt32LE(buf, offset) ==
    ReadUInt16LE(buf, offset) + 65536 * ReadUInt16LE(buf, offset + 2)

\* Buffer.readInt16LE
ReadInt16LE(buf, offset) ==
    LET u == ReadUInt16LE(buf, offset)
    IN  IF u >= 32768 THEN u - 65536 ELSE u

\* C27: a segment of n bytes converts to 44 + 2n bytes: a header declaring
\* PCM, 1 channel, 8000 Hz, 16 bits, byte rate 16000, block align 2, data
\* size 2n and RIFF size 36 + 2n, then n signed 16-bit little-endian
\* samples, sample i the decode of input byte i.
C27_WavLayout ==
    wavOut # << >>
      => LET n == Len(wavIn)
         IN  /\ Len(wavOut) = 44 + 2 * n
             /\ \A k \in 1..Len(wavOut) : wavOut[k] \in Bytes
             /\ SubSeq(wavOut, 1, 4) = <<82, 73, 70, 70>>
             /\ ReadUInt32LE(wavOut, 4) = 36 + 2 * n
             /\ SubSeq(wavOut, 9, 12) = <<87, 65, 86, 69>>
             /\ SubSeq(wavOut, 13, 16) = <<102, 109, 116, 32>>
             /\ ReadUInt32LE(wavOut, 16) = 16
             /\ ReadUInt16LE(wavOut, 20) = 1
             /\ ReadUInt16LE(wavOut, 22) = 1
             /\ ReadUInt32LE(wavOut, 24) = 8000
             /\ ReadUInt32LE(wavOut, 28) = 16000
             /\ ReadUInt16LE(wavOut, 32) = 2
             /\ ReadUInt16LE(wavOut, 34) = 16
             /\ SubSeq(wavOut, 37, 40) = <<100, 97, 116, 97>>
             /\ ReadUInt32LE(wavOut, 40) = 2 * n
             /\ \A i \in 1..n :
                  ReadInt16LE(wavOut, 44 + 2 * (i - 1)) = mulawToLinear(wavIn[i])

\* a converted segment whose samples differ, one negative and one positive
C27_Witness ==
    /\ wavOut # << >>
    /\ Len(wavIn) >= 2
    /\ mulawToLinear(wavIn[1]) < 0
    /\ mulawToLinear(wavIn[2]) > 0
    /\ Abs(mulawToLinear(wavIn[1])) # Abs(mulawToLinear(wavIn[2]))

\* C28: addChunk rejects a chunk that decodes to zero bytes: the buffer's
\* contents and timing fields are as they were before the call.
C28_EmptyChunkIsRejected ==
    [][(/\ event'.op = "media"
        /\ event'.added
        /\ ByteLength(Base64Decode(event'.chunk)) = 0)
         => /\ ab'.buffer = ab.buffer
            /\ ab'.lastAudioTime = ab.lastAudioTime
            /\ ab'.silenceStartTime = ab.silenceStartTime]_vars

\* C29: right after a poll, checkAndTranscribe having run to its first
\* suspension, the buffered audio is shorter than maxBufferDurationMs.
C29_PollLeavesLessThanTheCap ==
    event.op = "poll" => ~AudioAtLeast(ab, ab.maxBufferDurationMs)

\* a poll found maxBufferDurationMs of quiet audio, no timing on record,
\* and its flush emptied the buffer
C29_Witness ==
    /\ event.op = "poll"
    /\ event.strategy = 2
    /\ event.outcome = "quiet"
    /\ Len(ab.buffer) = 0
    /\ ab.lastAudioTime = Null
    /\ ab.silenceStartTime = Null

\* C30: after a flush that discards its segment (too short or too quiet)
\* lastAudioTime and silenceStartTime are unset.
C30_DiscardResetsTiming ==
    event.outcome \in {"short", "quiet"}
      => /\ Len(ab.buffer) = 0
         /\ ab.lastAudioTime = Null
         /\ ab.silenceStartTime = Null

\* the caller's value when one is given, the default when it is omitted
Configured(given, default) == IF given = Undefined THEN default ELSE given

\* C32: from construction on, each of the four settings is the caller's
\* value when one was given, 0 included, and the default (5000, 15000,
\* 1500, 1000) when it was omitted; no operation changes it.
C32_ConfigurationIsTheCallers ==
    event.op # "init"
      => /\ ab.minBufferDurationMs = Configured(optionsIn.minBufferDurationMs, 5000)
         /\ ab.maxBufferDurationMs = Configured(optionsIn.maxBufferDurationMs, 15000)
         /\ ab.pauseDurationMs = Configured(optionsIn.pauseDurationMs, 1500)
         /\ ab.energyThreshold = Configured(optionsIn.energyThreshold, 1000)

\* C31: at no time are two transcriptions of the call in flight.
C31_OneTranscriptionInFlight ==
    Len(pending) <= 1

\* the chunk numbers of all submitted segments, one after the other
RECURSIVE Flatten(_)
Flatten(q) == IF q = << >> THEN << >> ELSE Head(q) \o Flatten(Tail(q))

NoRepeats(q) == \A i, j \in 1 .. Len(q) : q[i] = q[j] => i = j

\* C33: however arrivals, polls, the teardown flush and completions
\* interleave, an accepted chunk is in at most one submitted segment, and
\* no more audio is submitted than was accepted.
C33_ChunksAreSubmittedOnce ==
    /\ NoRepeats(Flatten(trail.submitted))
    /\ \A i \in 1 .. Len(Flatten(trail.submitted)) :
          Flatten(trail.submitted)[i] \in 1 .. trail.arrivals
    /\ trail.framesOut <= trail.framesIn
    /\ Len(trail.submitted) = trail.segments

\* two segments are in flight at once, the second of chunks that arrived
\* while the first was awaiting its transcription
C33_Witness ==
    /\ Len(pending) = 2
    /\ Len(trail.submitted) = 2
    /\ trail.submitted[1] = <<1, 2>>
    /\ trail.submitted[2] # << >>
    /\ trail.framesOut = trail.framesIn

\* C36: transcripts reach onTranscript in the order in which their
\* segments were submitted.
C36_TranscriptsInSubmissionOrder ==
    \A i, j \in 1 .. Len(trail.delivered) :
        i < j => trail.delivered[i] < trail.delivered[j]

\* C40: onTranscript is called at most once per submitted segment, only
\* when that segment's request has returned successfully, only with
\* non-empty trimmed text and with the final flag set; never by a flush
\* that discards its segment or whose transcription fails.
C40_TranscriptOncePerSuccess ==
    /\ NoRepeats(trail.delivered)
    /\ \A i \in 1 .. Len(trail.delivered) :
          /\ trail.delivered[i] \in 1 .. trail.segments
          /\ \A k \in 1 .. Len(pending) : pending[k] # trail.delivered[i]
    /\ event.transcript # NoText
          => /\ event.op = "complete"
             /\ event.backend.ok
             /\ event.stt.settled = "resolved"
             /\ event.transcript = Trim(event.backend.text)
             /\ event.transcript # ""
             /\ event.isFinal
    /\ event.outcome \in {"short", "quiet", "empty"} => event.transcript = NoText
    /\ event.stt.settled = "rejected" => event.transcript = NoText

\* one of two segments in flight has had its transcript delivered, the
\* other is still awaiting its own
C40_Witness ==
    /\ event.op = "complete"
    /\ event.transcript = "hi"
    /\ Len(trail.delivered) = 1
    /\ Len(pending) = 1
    /\ trail.segments = 2

\* C34: in every state of the buffer, if silenceStartTime is set then
\* lastAudioTime is set and not later; so whenever condition (a) holds,
\* condition (c) holds too.
C34_SilenceIsNeverBeforeSpeech ==
    /\ IsSet(ab.silenceStartTime)
          => /\ IsSet(ab.lastAudioTime)
             /\ ab.lastAudioTime <= ab.silenceStartTime
    /\ PauseCondition(ab, now) => TrailingCondition(ab, now)

\* the clock has advanced to where condition (a) holds of a buffer with
\* speech and silence on record
C34_Witness ==
    /\ PauseCondition(ab, now)
    /\ IsSet(ab.lastAudioTime)
    /\ Len(ab.buffer) > 0
    /\ event.op = "tick"

\* C35: whenever the buffer holds a chunk that addChunk took for speech,
\* lastAudioTime is set.
C35_BufferedSpeechIsTracked ==
    (\E i \in 1 .. Len(ab.buffer) : IsSpeech(ab, ab.buffer[i]))
      => IsSet(ab.lastAudioTime)

\* C37: once the call's stream has ended, by 'stop' or by the socket
\* closing, its timer is cleared and its registry entries are gone.
C37_EndedCallHasNoTimer ==
    (callSid # NoSid /\ (tornDown \/ ~wsOpen))
      => /\ ~intervalActive
         /\ mediaStreams = {}

\* C38: a media message before 'start', after 'stop' or with an empty
\* payload adds nothing and leaves the buffer as it was.
C38_MediaOutsideTheStreamIsIgnored ==
    [][(/\ event'.op = "media"
        /\ \/ callSid = NoSid
           \/ tornDown
           \/ ~TruthyText(event'.chunk))
         => /\ ab' = ab
            /\ appended' = appended
            /\ ~event'.added]_vars

\* a media message with audio arrived after 'stop', while the stopped
\* call's last flush was still awaiting its transcription
C38_Witness ==
    /\ event.op = "media"
    /\ tornDown
    /\ TruthyText(event.chunk)
    /\ Base64Decode(event.chunk) # << >>
    /\ ~event.added
    /\ inflight > 0

\* C39: a poll on an empty buffer, or on one of which none of (a), (b),
\* (c) holds, changes nothing in the buffer, makes no STT call and no call
\* of onTranscript.
C39_IdlePollHasNoEffect ==
    [][(/\ event'.op = "poll"
        /\ \/ Len(ab.buffer) = 0
           \/ ~(\/ PauseCondition(ab, now)
                \/ MaxCondition(ab, now)
                \/ TrailingCondition(ab, now)))
         => /\ ab' = ab
            /\ inflight' = inflight
            /\ ~event'.flushStarted
            /\ event'.stt = NoStt
            /\ event'.transcript = NoText]_vars

\* a poll found speech buffered, none of the conditions met, and did
\* nothing
C39_Witness ==
    /\ event.op = "poll"
    /\ ~event.flushStarted
    /\ Len(ab.buffer) > 0
    /\ IsSet(ab.lastAudioTime)
    /\ ~IsSet(ab.silenceStartTime)
    /\ inflight = 0

=============================================================================
